---- MODULE Spec2Model ----
(***************************************************************************)
(* A model of the PNG decoder of png-viewer.                               *)
(*                                                                         *)
(* The repository holds two snapshots of the decoder: src/parse.rs (the    *)
(* later one) and src/render.rs (the earlier one).  Both are modelled; the *)
(* variable impl says which one a behaviour runs.  Chunk parsing is        *)
(* src/render/chunks.rs.  Integer overflow is build dependent in Rust (a   *)
(* panic with overflow checks, wrapping without): the variable build says  *)
(* which.                                                                  *)
(*                                                                         *)
(* Byte strings are sequences of 0..255.  A parser result is a record      *)
(*   [ok |-> TRUE,  rest |-> remaining input, out |-> value]  or           *)
(*   [ok |-> FALSE, sev |-> "Error" | "Failure", err |-> error value]      *)
(* as nom's IResult with nom::Err::Error / nom::Err::Failure.              *)
(***************************************************************************)
EXTENDS Integers, Sequences, FiniteSets, TLC

VARIABLES
    impl,       \* "parse" (src/parse.rs) or "render" (src/render.rs)
    build,      \* "debug" (overflow checks) or "release" (wrapping)
    stream,     \* the byte stream handed to render
    pc,         \* where the decode stands
    remaining,  \* the input the chunk iterator has left
    chunks,     \* the chunks the chunk parser has yielded, in order
    renderer,   \* the Renderer inside the decompressor (NoRenderer before Renderer::new)
    fed,        \* the bytes fed to the decompressor so far
    pending,    \* decompressed bytes the decompressor still holds in its buffer
    writes,     \* the buffers handed to Renderer::write, in order
    drawn,      \* the draw calls issued so far
    result,     \* the outcome of the decode
    viewer,     \* the host application's Viewer (src/main.rs)
    task,       \* the host's background load task and its Loaded message
    before,     \* history: what the viewer drew when the last load was requested
    state       \* the State (zoom level) the renderer draws with

vars == <<impl, build, stream, pc, remaining, chunks, renderer, fed, pending, writes, drawn, result,
          viewer, task, before, state>>

\* the variables of a decode
decode == <<impl, build, stream, pc, remaining, chunks, renderer, fed, pending, writes, drawn, result>>

\* no host application around the decoder
NoViewer == [state |-> "None"]

NoTask == [state |-> "none", result |-> "", loads |-> 0]

\* the zoom levels, in the order of the enum
Levels == <<"X1", "X1p5", "X2", "X2p5", "X3", "X3p5", "X4">>

\* State::default: the enum's default level
State_default == [zoom |-> Levels[1]]

HostOff ==
    /\ viewer = NoViewer
    /\ task = NoTask
    /\ before = <<>>
    /\ state = State_default

\* ------------------------------------------------------------------------
\* Bounds of the model
\* ------------------------------------------------------------------------
MaxTail == 2

MaxBody == 4

MaxWidth == 2

\* ------------------------------------------------------------------------
\* Byte-string helpers
\* ------------------------------------------------------------------------
Byte == 0..255

Min(a, b) == IF a <= b THEN a ELSE b

Take(s, n) == SubSeq(s, 1, Min(n, Len(s)))

Drop(s, n) == SubSeq(s, n + 1, Len(s))

RECURSIVE Concat(_)
Concat(ss) == IF ss = <<>> THEN <<>> ELSE Head(ss) \o Concat(Tail(ss))

\* ------------------------------------------------------------------------
\* Error values (render/error.rs, parse/error.rs)
\* ------------------------------------------------------------------------
\* Error::NomFailed(NomError { input: first 64 bytes of the input, code })
NomFailed(code, input) == [kind |-> "NomFailed", code |-> code, arg |-> Take(input, 64)]

Err(kind, arg) == [kind |-> kind, code |-> "", arg |-> arg]

NoErr == Err("", <<>>)

Fail(sev, e) == [ok |-> FALSE, sev |-> sev, err |-> e]

Ok(rest, out) == [ok |-> TRUE, rest |-> rest, out |-> out]

\* ------------------------------------------------------------------------
\* nom primitives, as the parsers use them (complete versions)
\* ------------------------------------------------------------------------
tag(t, input) ==
    IF Len(input) >= Len(t) /\ Take(input, Len(t)) = t
    THEN Ok(Drop(input, Len(t)), t)
    ELSE Fail("Error", NomFailed("Tag", input))

\* a take that yields its n bytes and leaves the input where it was
take_without_advance(n, input) ==
    IF Len(input) >= n
    THEN Ok(input, Take(input, n))
    ELSE Fail("Error", NomFailed("Eof", input))

take(n, input) ==
    IF Len(input) >= n
    THEN Ok(Drop(input, n), Take(input, n))
    ELSE Fail("Error", NomFailed("Eof", input))

be_u32(input) ==
    IF Len(input) >= 4
    THEN Ok(Drop(input, 4),
            ((input[1] * 256 + input[2]) * 256 + input[3]) * 256 + input[4])
    ELSE Fail("Error", NomFailed("Eof", input))

is_alphabetic(b) == (b >= 65 /\ b <= 90) \/ (b >= 97 /\ b <= 122)

is_ascii_uppercase(b) == b >= 65 /\ b <= 90

\* take_while_m_n(4, 4, is_alphabetic)
take_while_m_n(input) ==
    IF Len(input) >= 4 /\ \A i \in 1..4 : is_alphabetic(input[i])
    THEN Ok(Drop(input, 4), Take(input, 4))
    ELSE Fail("Error", NomFailed("TakeWhileMN", input))

make_ascii_uppercase(ty) ==
    [i \in 1..Len(ty) |-> IF ty[i] >= 97 /\ ty[i] <= 122 THEN ty[i] - 32 ELSE ty[i]]

\* ------------------------------------------------------------------------
\* Enumerants (render/chunks.rs)
\* ------------------------------------------------------------------------
BitDepths == {"One", "Two", "Four", "Eight", "Sixteen"}

ColorTypes == {"GrayScale", "Rgb", "Palette", "GrayScaleAlpha", "RgbAlpha"}

Interlaces == {"None", "Adam7"}

\* impl TryFrom<u8> for BitDepth
BitDepth_try_from(value) ==
    CASE value = 1 -> [ok |-> TRUE, out |-> "One"]
      [] value = 2 -> [ok |-> TRUE, out |-> "Two"]
      [] value = 4 -> [ok |-> TRUE, out |-> "Four"]
      [] value = 8 -> [ok |-> TRUE, out |-> "Eight"]
      [] value = 16 -> [ok |-> TRUE, out |-> "Sixteen"]
      [] OTHER -> [ok |-> FALSE, err |-> Err("InvalidBitDepth", <<value>>)]

\* a conversion that takes every value up to 6 for a colour type
ColorType_try_from_range(value) ==
    CASE value = 0 -> [ok |-> TRUE, out |-> "GrayScale"]
      [] value \in {1, 2} -> [ok |-> TRUE, out |-> "Rgb"]
      [] value = 3 -> [ok |-> TRUE, out |-> "Palette"]
      [] value \in {4, 5} -> [ok |-> TRUE, out |-> "GrayScaleAlpha"]
      [] value = 6 -> [ok |-> TRUE, out |-> "RgbAlpha"]
      [] OTHER -> [ok |-> FALSE, err |-> Err("InvalidColorType", <<value>>)]

\* impl TryFrom<u8> for ColorType
ColorType_try_from(value) ==
    CASE value = 0 -> [ok |-> TRUE, out |-> "GrayScale"]
      [] value = 2 -> [ok |-> TRUE, out |-> "Rgb"]
      [] value = 3 -> [ok |-> TRUE, out |-> "Palette"]
      [] value = 4 -> [ok |-> TRUE, out |-> "GrayScaleAlpha"]
      [] value = 6 -> [ok |-> TRUE, out |-> "RgbAlpha"]
      [] OTHER -> [ok |-> FALSE, err |-> Err("InvalidColorType", <<value>>)]

\* impl TryFrom<u8> for Interlace
Interlace_try_from(value) ==
    CASE value = 0 -> [ok |-> TRUE, out |-> "None"]
      [] value = 1 -> [ok |-> TRUE, out |-> "Adam7"]
      [] OTHER -> [ok |-> FALSE, err |-> Err("InvalidInterlace", <<value>>)]

\* impl TryFrom<u8> for FilterType
FilterType_try_from(value) ==
    CASE value = 0 -> [ok |-> TRUE, out |-> "None"]
      [] value = 1 -> [ok |-> TRUE, out |-> "Sub"]
      [] value = 2 -> [ok |-> TRUE, out |-> "Up"]
      [] value = 3 -> [ok |-> TRUE, out |-> "Average"]
      [] value = 4 -> [ok |-> TRUE, out |-> "Paeth"]
      [] OTHER -> [ok |-> FALSE, err |-> Err("InvalidFilterType", <<value>>)]

\* `bit_depth as u8`, `color_type as u8`: the #[repr(u8)] discriminants
BitDepth_as_u8(bd) ==
    CASE bd = "One" -> 1 [] bd = "Two" -> 2 [] bd = "Four" -> 4
      [] bd = "Eight" -> 8 [] bd = "Sixteen" -> 16

ColorType_as_u8(ct) ==
    CASE ct = "GrayScale" -> 0 [] ct = "Rgb" -> 2 [] ct = "Palette" -> 3
      [] ct = "GrayScaleAlpha" -> 4 [] ct = "RgbAlpha" -> 6

\* T::try_from for the type T that one_byte_as is instantiated with
try_from(T, value) ==
    CASE T = "BitDepth" -> BitDepth_try_from(value)
      [] T = "ColorType" -> ColorType_try_from(value)
      [] T = "Interlace" -> Interlace_try_from(value)
      [] T = "FilterType" -> FilterType_try_from(value)

\* the result of one_byte_as once the byte is converted (map_res keeps the
\* conversion's own error, error.rs from_external_error)
one_byte_converted(input, c) ==
    IF c.ok THEN Ok(Drop(input, 1), c.out) ELSE Fail("Error", c.err)

\* one_byte_as::<T>: take one byte, convert it with T::try_from
one_byte_as(T, input) ==
    IF Len(input) < 1
    THEN Fail("Error", NomFailed("Eof", input))
    ELSE one_byte_converted(input, try_from(T, input[1]))

\* ------------------------------------------------------------------------
\* Chunk bodies (render/chunks.rs)
\* ------------------------------------------------------------------------
\* Colors::new
Colors_new(input) ==
    IF Len(input) % 3 > 0 \/ Len(input) > 256 * 3
    THEN [ok |-> FALSE, err |-> Err("InvalidPaletteSize", <<Len(input)>>)]
    ELSE [ok |-> TRUE, out |-> input]

\* Colors::len
Colors_len(colors) == Len(colors) \div 3

\* an unknown-chunk parser that hands its input back instead of discarding it
unknown_keeps_body(input) == Ok(input, [type |-> "Unknown"])

\* fn unknown: the body is discarded
unknown(input) == Ok(<<>>, [type |-> "Unknown"])

ihdr(input) ==
    LET w == be_u32(input) IN
    IF ~w.ok THEN w ELSE
    LET h == be_u32(w.rest) IN
    IF ~h.ok THEN h ELSE
    LET bd == one_byte_as("BitDepth", h.rest) IN
    IF ~bd.ok THEN bd ELSE
    LET ct == one_byte_as("ColorType", bd.rest) IN
    IF ~ct.ok THEN ct ELSE
    LET comp == tag(<<0>>, ct.rest) IN
    IF ~comp.ok THEN comp ELSE
    LET filt == tag(<<0>>, comp.rest) IN
    IF ~filt.ok THEN filt ELSE
    LET il == one_byte_as("Interlace", filt.rest) IN
    IF ~il.ok THEN il ELSE
    Ok(il.rest, [type |-> "Ihdr", width |-> w.out, height |-> h.out,
                 bit_depth |-> bd.out, color_type |-> ct.out, interlace |-> il.out])

\* plte hands back its whole input as the remaining input
plte(input) ==
    IF Colors_new(input).ok
    THEN Ok(input, [type |-> "Plte", colors |-> Colors_new(input).out])
    ELSE Fail("Failure", Colors_new(input).err)

idat(input) == Ok(<<>>, [type |-> "Idat", data |-> input])

iend(input) ==
    IF input = <<>>
    THEN Ok(input, [type |-> "Iend"])
    ELSE Fail("Failure", Err("InvalidIEnd", <<>>))

\* nom::combinator::all_consuming applied to a body parser's result
all_consuming(r) ==
    IF ~r.ok THEN r
    ELSE IF Len(r.rest) = 0 THEN r
    ELSE Fail("Error", NomFailed("Eof", r.rest))

TagIHDR == <<73, 72, 68, 82>>

TagPLTE == <<80, 76, 84, 69>>

TagIDAT == <<73, 68, 65, 84>>

TagIEND == <<73, 69, 78, 68>>

\* the body parser chosen by the case-folded tag
chunk_body(ty_upper, chunk_data) ==
    CASE ty_upper = TagIHDR -> ihdr(chunk_data)
      [] ty_upper = TagPLTE -> plte(chunk_data)
      [] ty_upper = TagIDAT -> idat(chunk_data)
      [] ty_upper = TagIEND -> iend(chunk_data)
      [] OTHER -> unknown(chunk_data)

chunk(input) ==
    LET length == be_u32(input) IN
    IF ~length.ok THEN length ELSE
    LET ty == take_while_m_n(length.rest) IN
    IF ~ty.ok THEN ty ELSE
    LET critical == is_ascii_uppercase(ty.out[1])
        data == take(length.out, ty.rest) IN
    IF ~data.ok THEN data ELSE
    LET crc == take(4, data.rest) IN
    IF ~crc.ok THEN crc ELSE
    LET ty_upper == make_ascii_uppercase(ty.out) IN
    IF ty_upper \notin {TagIHDR, TagPLTE, TagIDAT, TagIEND} /\ critical
    THEN Fail("Failure", Err("UnknownCriticalChunk", ty_upper))
    ELSE LET body == all_consuming(chunk_body(ty_upper, data.out)) IN
         IF ~body.ok THEN body ELSE Ok(crc.rest, body.out)

\* a signature validator that compares the first tag only
header_first_tag_only(input) ==
    LET t1 == tag(<<137>>, input) IN
    IF ~t1.ok THEN t1 ELSE
    LET t2 == take(7, t1.rest) IN
    IF ~t2.ok THEN t2 ELSE
    Ok(t2.rest, Take(input, 8))

\* pub fn header: the 8-byte signature, as three tags in a row
header(input) ==
    LET t1 == tag(<<137>>, input) IN
    IF ~t1.ok THEN t1 ELSE
    LET t2 == tag(<<80, 78, 71>>, t1.rest) IN
    IF ~t2.ok THEN t2 ELSE
    LET t3 == tag(<<13, 10, 26, 10>>, t2.rest) IN
    IF ~t3.ok THEN t3 ELSE
    Ok(t3.rest, Take(input, 8))

\* ------------------------------------------------------------------------
\* Renderer (parse.rs, render.rs)
\* ------------------------------------------------------------------------
NoPalette == <<>>

SomePalette(colors) == <<colors>>

\* a table whose arms match the bit depth alone
bits_per_pixel_depth_only(bit_depth, color_type) ==
    CASE bit_depth = "One" -> 1
      [] bit_depth = "Two" -> 2
      [] bit_depth = "Four" -> 4
      [] bit_depth = "Eight" /\ color_type \in {"GrayScale", "Palette"} -> 8
      [] bit_depth = "Eight" /\ color_type = "GrayScaleAlpha" -> 16
      [] bit_depth = "Eight" /\ color_type = "Rgb" -> 24
      [] bit_depth = "Eight" /\ color_type = "RgbAlpha" -> 32
      [] bit_depth = "Sixteen" /\ color_type \in {"GrayScale", "Palette"} -> 16
      [] bit_depth = "Sixteen" /\ color_type = "GrayScaleAlpha" -> 32
      [] bit_depth = "Sixteen" /\ color_type = "Rgb" -> 48
      [] bit_depth = "Sixteen" /\ color_type = "RgbAlpha" -> 64
      [] OTHER -> 0

\* the (bit depth, colour type) -> bits per pixel table of Renderer::new;
\* 0 stands for the arm that returns InvalidBitColorCombo
bits_per_pixel(bit_depth, color_type) ==
    CASE bit_depth = "One" /\ color_type \in {"GrayScale", "Palette"} -> 1
      [] bit_depth = "Two" /\ color_type \in {"GrayScale", "Palette"} -> 2
      [] bit_depth = "Four" /\ color_type \in {"GrayScale", "Palette"} -> 4
      [] bit_depth = "Eight" /\ color_type \in {"GrayScale", "Palette"} -> 8
      [] (bit_depth = "Eight" /\ color_type = "GrayScaleAlpha")
           \/ (bit_depth = "Sixteen" /\ color_type = "GrayScale") -> 16
      [] bit_depth = "Eight" /\ color_type = "Rgb" -> 24
      [] (bit_depth = "Eight" /\ color_type = "RgbAlpha")
           \/ (bit_depth = "Sixteen" /\ color_type = "GrayScaleAlpha") -> 32
      [] bit_depth = "Sixteen" /\ color_type = "Rgb" -> 48
      [] bit_depth = "Sixteen" /\ color_type = "RgbAlpha" -> 64
      [] OTHER -> 0

div_ceil(a, b) == (a + b - 1) \div b

\* Renderer::new
Renderer_new(width, height, bit_depth, color_type, interlace) ==
    IF bits_per_pixel(bit_depth, color_type) = 0
    THEN [ok |-> FALSE,
          err |-> Err("InvalidBitColorCombo",
                      <<BitDepth_as_u8(bit_depth), ColorType_as_u8(color_type)>>)]
    ELSE [ok |-> TRUE,
          out |-> [frame |-> TRUE,
                   width |-> width,
                   height |-> height,
                   color_type |-> color_type,
                   bits_per_pixel |-> bits_per_pixel(bit_depth, color_type),
                   interlace |-> interlace,
                   palette |-> NoPalette,
                   scanline |-> 0,
                   scanline_len |-> div_ceil(width * bits_per_pixel(bit_depth, color_type), 8) + 1,
                   next_scanline |-> <<>>,
                   prev_scanline |-> <<>>]]

\* Renderer::set_palette
set_palette(r, colors) == [r EXCEPT !.palette = SomePalette(colors)]

\* s[i] with a 0-based index, and `*s.get(i).unwrap_or(&0)`
At0(s, i) == s[i + 1]

Get0(s, i) == IF i >= 0 /\ i < Len(s) THEN s[i + 1] ELSE 0

Abs(x) == IF x < 0 THEN 0 - x ELSE x

U16 == 65536

\* the Paeth choice among left, up, up_left for a predictor p
paeth_select(p, left, up, up_left) ==
    IF Abs(p - left) <= Abs(p - up) /\ Abs(p - left) <= Abs(p - up_left)
    THEN left
    ELSE IF Abs(p - up) <= Abs(p - up_left) THEN up ELSE up_left

Panic == -1

\* parse.rs filter: the new value of next_scanline[i] (i is 0-based, >= 1)
filter_byte_parse(filter_type, line, prev, bytes_per_pixel, i) ==
    LET prior == IF i >= bytes_per_pixel THEN i - bytes_per_pixel ELSE 0
        left == At0(line, prior)
        up == Get0(prev, i)
        up_left == Get0(prev, prior)
    IN CASE filter_type = "None" -> At0(line, i)
         [] filter_type = "Sub" -> (At0(line, i) + left) % 256
         [] filter_type = "Up" ->
              IF prev # <<>> THEN (At0(line, i) + At0(prev, i)) % 256 ELSE At0(line, i)
         [] filter_type = "Average" -> (At0(line, i) + ((left + up) \div 2)) % 256
         [] filter_type = "Paeth" ->
              (At0(line, i) + paeth_select(left + up - up_left, left, up, up_left)) % 256

\* render.rs filter: the new value of next_scanline[i], or Panic.
\* `i - bytes_per_pixel` is an unchecked usize subtraction and
\* `left + up - up_left` an unchecked u16 one.
filter_byte_render(build_, filter_type, line, prev, bytes_per_pixel, i) ==
    LET underflow == i < bytes_per_pixel
        left == IF underflow THEN 0 ELSE Get0(line, i - bytes_per_pixel)
        up == Get0(prev, i)
        up_left == IF underflow THEN 0 ELSE Get0(prev, i - bytes_per_pixel)
        p == (left + up - up_left + U16) % U16
    IN CASE filter_type = "None" -> At0(line, i)
         [] filter_type = "Sub" ->
              IF i >= 1 + bytes_per_pixel
              THEN (At0(line, i) + At0(line, i - bytes_per_pixel)) % 256
              ELSE At0(line, i)
         [] filter_type = "Up" ->
              IF prev # <<>> THEN (At0(line, i) + At0(prev, i)) % 256 ELSE At0(line, i)
         [] filter_type = "Average" ->
              IF underflow /\ build_ = "debug" THEN Panic
              ELSE (At0(line, i) + ((left + up) \div 2)) % 256
         [] filter_type = "Paeth" ->
              IF (underflow \/ left + up < up_left) /\ build_ = "debug" THEN Panic
              ELSE (At0(line, i) + paeth_select(p, left, up, up_left)) % 256

filter_byte(impl_, build_, filter_type, line, prev, bytes_per_pixel, i) ==
    IF impl_ = "parse"
    THEN filter_byte_parse(filter_type, line, prev, bytes_per_pixel, i)
    ELSE filter_byte_render(build_, filter_type, line, prev, bytes_per_pixel, i)

\* the `for i in 1..self.next_scanline.len()` loops of filter, in place
RECURSIVE filter_loop(_, _, _, _, _, _, _)
filter_loop(impl_, build_, filter_type, line, prev, bytes_per_pixel, i) ==
    IF i >= Len(line) THEN [res |-> "Ok", line |-> line]
    ELSE LET v == filter_byte(impl_, build_, filter_type, line, prev, bytes_per_pixel, i) IN
         IF v = Panic THEN [res |-> "Panic", line |-> line]
         ELSE filter_loop(impl_, build_, filter_type, [line EXCEPT ![i + 1] = v],
                          prev, bytes_per_pixel, i + 1)

\* Renderer::filter on the completed next_scanline
filter(impl_, build_, r) ==
    LET ft == one_byte_as("FilterType", r.next_scanline) IN
    IF ~ft.ok THEN [res |-> "Err", err |-> ft.err, line |-> r.next_scanline]
    ELSE filter_loop(impl_, build_, ft.out, [r.next_scanline EXCEPT ![1] = 0],
                     r.prev_scanline, div_ceil(r.bits_per_pixel, 8), 1)

\* ------------------------------------------------------------------------
\* Pixel decode (Renderer::render, Renderer::draw_pixel, Colors::get)
\* ------------------------------------------------------------------------
\* A colour is <<r, g, b, a>>, each channel a fraction <<numerator, denominator>>.
One == <<1, 1>>

\* what a colour expression yields when evaluating it panics
PanicColor == <<>>

\* iced::Color::from_rgb, from_rgba (f32 channels)
from_rgb(r, g, b) == <<r, g, b, One>>

from_rgba(r, g, b, a) == <<r, g, b, a>>

\* iced::Color::from_rgb8, from_rgba8 (u8 colour channels over 255, f32 alpha)
from_rgb8(r, g, b) == <<(<<r, 255>>), (<<g, 255>>), (<<b, 255>>), One>>

from_rgba8(r, g, b, a) == <<(<<r, 255>>), (<<g, 255>>), (<<b, 255>>), a>>

\* the closure from_two_bytes: a big-endian u16 over u16::MAX
from_two_bytes(first, second) == <<first * 256 + second, 65535>>

RECURSIVE Pow2(_)
Pow2(n) == IF n = 0 THEN 1 ELSE 2 * Pow2(n - 1)

\* Colors::get: slicing self.0[index * 3..][..3] panics out of range
Colors_get(colors, index) ==
    IF index * 3 + 3 > Len(colors)
    THEN PanicColor
    ELSE from_rgb8(colors[index * 3 + 1], colors[index * 3 + 2], colors[index * 3 + 3])

\* take_bits(bits_per_pixel): the k-th field of the input, most significant bit first
take_bits(input, bits, k) ==
    (At0(input, (k * bits) \div 8) \div Pow2(8 - bits - ((k * bits) % 8))) % Pow2(bits)

\* Renderer::draw_pixel: the frame primitive's coordinates before zoom.
\* parse.rs is called as (x = i, y = scanline); render.rs takes (row, column)
\* into Point::new(row, column) and is called as (scanline, i).
draw_pixel(impl_, i, scanline, color) ==
    IF impl_ = "parse"
    THEN [x |-> i, y |-> scanline, color |-> color]
    ELSE [x |-> scanline, y |-> i, color |-> color]

\* the slice the pixel iterator runs over
pixel_input(impl_, r) ==
    IF impl_ = "parse" THEN Drop(r.next_scanline, 1) ELSE r.next_scanline

\* the colour of one pixel unit of a format with bits_per_pixel >= 8, parse.rs
pixel_color_parse(r, bytes, bytes_per_pixel) ==
    CASE r.color_type = "GrayScale" ->
           IF bytes_per_pixel = 1
           THEN from_rgb((<<bytes[1], 255>>), (<<bytes[1], 255>>), (<<bytes[1], 255>>))
           ELSE from_rgb(from_two_bytes(bytes[1], bytes[2]), from_two_bytes(bytes[1], bytes[2]),
                         from_two_bytes(bytes[1], bytes[2]))
      [] r.color_type = "Rgb" ->
           IF bytes_per_pixel = 3
           THEN from_rgb8(bytes[1], bytes[2], bytes[3])
           ELSE from_rgb(from_two_bytes(bytes[1], bytes[2]), from_two_bytes(bytes[3], bytes[4]),
                         from_two_bytes(bytes[5], bytes[6]))
      [] r.color_type = "GrayScaleAlpha" ->
           IF bytes_per_pixel = 2
           THEN from_rgba((<<bytes[1], 255>>), (<<bytes[1], 255>>), (<<bytes[1], 255>>),
                          (<<bytes[2], 255>>))
           ELSE from_rgba(from_two_bytes(bytes[1], bytes[2]), from_two_bytes(bytes[1], bytes[2]),
                          from_two_bytes(bytes[1], bytes[2]), from_two_bytes(bytes[3], bytes[4]))
      [] r.color_type = "RgbAlpha" ->
           IF bytes_per_pixel = 4
           THEN from_rgba8(bytes[1], bytes[2], bytes[3], (<<bytes[4], 255>>))
           ELSE from_rgba(from_two_bytes(bytes[1], bytes[2]), from_two_bytes(bytes[3], bytes[4]),
                          from_two_bytes(bytes[5], bytes[6]), from_two_bytes(bytes[7], bytes[8]))

\* the same, render.rs: green is read from bytes[3], bytes[4]; GrayScaleAlpha
\* tests bytes_per_pixel == 1 and so always reads bytes[2], bytes[3]; 8-bit
\* alpha is divided by i8::MAX
pixel_color_render(r, bytes, bytes_per_pixel) ==
    CASE r.color_type = "GrayScale" ->
           IF bytes_per_pixel = 1
           THEN from_rgb((<<bytes[1], 255>>), (<<bytes[1], 255>>), (<<bytes[1], 255>>))
           ELSE from_rgb(from_two_bytes(bytes[1], bytes[2]), from_two_bytes(bytes[1], bytes[2]),
                         from_two_bytes(bytes[1], bytes[2]))
      [] r.color_type = "Rgb" ->
           IF bytes_per_pixel = 3
           THEN from_rgb8(bytes[1], bytes[2], bytes[3])
           ELSE from_rgb(from_two_bytes(bytes[1], bytes[2]), from_two_bytes(bytes[4], bytes[5]),
                         from_two_bytes(bytes[5], bytes[6]))
      [] r.color_type = "GrayScaleAlpha" ->
           IF bytes_per_pixel = 1
           THEN from_rgba((<<bytes[1], 255>>), (<<bytes[1], 255>>), (<<bytes[1], 255>>),
                          (<<bytes[2], 255>>))
           ELSE IF Len(bytes) < 4 THEN PanicColor
           ELSE from_rgba(from_two_bytes(bytes[1], bytes[2]), from_two_bytes(bytes[1], bytes[2]),
                          from_two_bytes(bytes[1], bytes[2]), from_two_bytes(bytes[3], bytes[4]))
      [] r.color_type = "RgbAlpha" ->
           IF bytes_per_pixel = 4
           THEN from_rgba8(bytes[1], bytes[2], bytes[3], (<<bytes[4], 127>>))
           ELSE from_rgba(from_two_bytes(bytes[1], bytes[2]), from_two_bytes(bytes[4], bytes[5]),
                          from_two_bytes(bytes[5], bytes[6]), from_two_bytes(bytes[7], bytes[8]))

\* the colour of pixel k of the row, or Panic
pixel_color(impl_, r, input, k) ==
    IF r.bits_per_pixel < 8
    THEN IF r.color_type = "GrayScale"
         THEN from_rgb((<<take_bits(input, r.bits_per_pixel, k), Pow2(r.bits_per_pixel)>>),
                       (<<take_bits(input, r.bits_per_pixel, k), Pow2(r.bits_per_pixel)>>),
                       (<<take_bits(input, r.bits_per_pixel, k), Pow2(r.bits_per_pixel)>>))
         ELSE Colors_get(r.palette[1], take_bits(input, r.bits_per_pixel, k))
    ELSE LET bytes_per_pixel == r.bits_per_pixel \div 8
             bytes == SubSeq(input, k * bytes_per_pixel + 1, (k + 1) * bytes_per_pixel)
         IN IF r.color_type = "Palette" THEN Colors_get(r.palette[1], bytes[1])
            ELSE IF impl_ = "parse" THEN pixel_color_parse(r, bytes, bytes_per_pixel)
            ELSE pixel_color_render(r, bytes, bytes_per_pixel)

\* how many items the nom iterator yields over the input
pixel_count(r, input) ==
    IF r.bits_per_pixel < 8
    THEN (Len(input) * 8) \div r.bits_per_pixel
    ELSE Len(input) \div (r.bits_per_pixel \div 8)

\* the `for (i, ..) in (&mut iter).enumerate()` loops: the draw calls from pixel i on
RECURSIVE render_loop(_, _, _, _, _)
render_loop(impl_, r, input, i, draws) ==
    IF i >= pixel_count(r, input) THEN [res |-> "Ok", err |-> NoErr, draws |-> draws]
    ELSE LET color == pixel_color(impl_, r, input, i) IN
         IF color = PanicColor THEN [res |-> "Panic", err |-> NoErr, draws |-> draws]
         ELSE render_loop(impl_, r, input, i + 1,
                          Append(draws, draw_pixel(impl_, i, r.scanline, color)))

\* Renderer::render: a Palette image without a palette draws nothing
render_scanline(impl_, r) ==
    IF impl_ = "parse" /\ ~r.frame
    THEN [res |-> "Err", err |-> Err("Unknown", <<>>), draws |-> <<>>]
    ELSE IF r.color_type = "Palette" /\ r.palette = NoPalette
    THEN [res |-> "Ok", err |-> NoErr, draws |-> <<>>]
    ELSE render_loop(impl_, r, pixel_input(impl_, r), 0, <<>>)

\* the renderer after a render with outcome p: parse.rs takes the frame out
\* of self.frame at the start of render and puts it back on the Ok path only
after_render(impl_, r, p) ==
    IF impl_ = "parse" /\ p.res # "Ok" THEN [r EXCEPT !.frame = FALSE] ELSE r

\* ------------------------------------------------------------------------
\* impl Write for Renderer
\* ------------------------------------------------------------------------
\* Renderer::write is a loop over the remainder of buf; draws accumulates the
\* draw calls.  write_loop is the head of an iteration, write_filtered what
\* follows self.filter() (result f) and write_rendered what follows
\* self.render() (result p): the swap, the clear and the scanline increment.
RECURSIVE write_loop(_, _, _, _, _)
\* a write that clears the current buffer without swapping it into the
\* previous one
write_rendered_no_swap(impl_, build_, r, p, remainder, draws) ==
    IF p.res = "Err"
    THEN [res |-> "Err", err |-> p.err, draws |-> draws, r |-> after_render(impl_, r, p)]
    ELSE IF p.res = "Panic"
    THEN [res |-> "Panic", err |-> NoErr, draws |-> draws \o p.draws,
          r |-> after_render(impl_, r, p)]
    ELSE write_loop(impl_, build_,
                    [r EXCEPT !.next_scanline = <<>>,
                              !.scanline = @ + 1],
                    remainder, draws \o p.draws)

write_rendered(impl_, build_, r, p, remainder, draws) ==
    IF p.res = "Err"
    THEN [res |-> "Err", err |-> p.err, draws |-> draws, r |-> after_render(impl_, r, p)]
    ELSE IF p.res = "Panic"
    THEN [res |-> "Panic", err |-> NoErr, draws |-> draws \o p.draws,
          r |-> after_render(impl_, r, p)]
    ELSE write_loop(impl_, build_,
                    [r EXCEPT !.prev_scanline = r.next_scanline,
                              !.next_scanline = <<>>,
                              !.scanline = @ + 1],
                    remainder, draws \o p.draws)

write_filtered(impl_, build_, r, f, remainder, draws) ==
    IF f.res = "Err"
    THEN [res |-> "Err", err |-> f.err, draws |-> draws, r |-> r]
    ELSE IF f.res = "Panic"
    THEN [res |-> "Panic", err |-> NoErr, draws |-> draws,
          r |-> [r EXCEPT !.next_scanline = f.line]]
    ELSE write_rendered(impl_, build_, [r EXCEPT !.next_scanline = f.line],
                        render_scanline(impl_, [r EXCEPT !.next_scanline = f.line]),
                        remainder, draws)

\* a write that also stops when the remainder fills the spare room exactly
write_loop_le(impl_, build_, r, remainder, draws) ==
    IF Len(remainder) <= r.scanline_len - Len(r.next_scanline)
    THEN [res |-> "Ok", err |-> NoErr, draws |-> draws,
          r |-> [r EXCEPT !.next_scanline = @ \o remainder]]
    ELSE write_filtered(
             impl_, build_,
             [r EXCEPT !.next_scanline = @ \o Take(remainder, r.scanline_len - Len(r.next_scanline))],
             filter(impl_, build_,
                    [r EXCEPT !.next_scanline = @ \o Take(remainder, r.scanline_len - Len(r.next_scanline))]),
             Drop(remainder, r.scanline_len - Len(r.next_scanline)),
             draws)

write_loop(impl_, build_, r, remainder, draws) ==
    IF Len(remainder) < r.scanline_len - Len(r.next_scanline)
    THEN [res |-> "Ok", err |-> NoErr, draws |-> draws,
          r |-> [r EXCEPT !.next_scanline = @ \o remainder]]
    ELSE write_filtered(
             impl_, build_,
             [r EXCEPT !.next_scanline = @ \o Take(remainder, r.scanline_len - Len(r.next_scanline))],
             filter(impl_, build_,
                    [r EXCEPT !.next_scanline = @ \o Take(remainder, r.scanline_len - Len(r.next_scanline))]),
             Drop(remainder, r.scanline_len - Len(r.next_scanline)),
             draws)

write(impl_, build_, r, buf) == write_loop(impl_, build_, r, buf, <<>>)

\* the count a write with outcome w reports: `break Ok(buf.len())`
write_count(w, buf) == IF w.res = "Ok" THEN Len(buf) ELSE 0

\* ------------------------------------------------------------------------
\* Input streams
\* ------------------------------------------------------------------------
Signature == <<137, 80, 78, 71, 13, 10, 26, 10>>

u32_be(n) == <<(n \div 16777216) % 256, (n \div 65536) % 256, (n \div 256) % 256, n % 256>>

\* one framed chunk: length, type, body, checksum
Frame(ty, body, crc) == u32_be(Len(body)) \o ty \o body \o crc

Crc0 == <<0, 0, 0, 0>>

IhdrBody(width, height, bd, ct, comp, filt, il) ==
    u32_be(width) \o u32_be(height) \o <<bd, ct, comp, filt, il>>

IhdrChunk(width, height, bd, ct) == Frame(TagIHDR, IhdrBody(width, height, bd, ct, 0, 0, 0), Crc0)

TagText == <<116, 69, 88, 116>>

TagCritical == <<65, 66, 67, 68>>

\* the chunks a stream's tail is drawn from, well formed and not
TailChunks ==
    { Frame(TagIDAT, <<120, 1>>, Crc0),
      Frame(TagIDAT, <<>>, Crc0),
      Frame(TagIEND, <<>>, Crc0),
      Frame(TagPLTE, <<>>, Crc0),
      Frame(TagPLTE, <<10, 20, 30>>, Crc0),
      Frame(TagPLTE, <<10, 20>>, Crc0),
      Frame(TagText, <<7>>, Crc0),
      Frame(TagCritical, <<7>>, Crc0),
      Frame(TagIEND, <<7>>, Crc0),
      IhdrChunk(1, 1, 8, 0),
      <<0, 0>> }

\* the chunks a stream may start with
FirstChunks ==
    { IhdrChunk(1, 1, 8, 3),
      IhdrChunk(1, 1, 8, 0),
      IhdrChunk(1, 1, 1, 2),
      Frame(TagIHDR, IhdrBody(1, 1, 3, 0, 0, 0, 0), Crc0),
      Frame(TagIDAT, <<120, 1>>, Crc0),
      Frame(TagIEND, <<>>, Crc0),
      Frame(TagPLTE, <<>>, Crc0),
      Frame(TagText, <<7>>, Crc0) }

RECURSIVE SeqsUpTo(_, _)
SeqsUpTo(S, n) ==
    IF n = 0 THEN {<<>>}
    ELSE SeqsUpTo(S, n - 1) \cup {Append(q, x) : q \in SeqsUpTo(S, n - 1), x \in S}

Tails == {Concat(q) : q \in SeqsUpTo(TailChunks, MaxTail)}

\* streams without the signature: truncated, or with one byte wrong
BadSignatures ==
    {Take(Signature, n) : n \in 0..7}
      \cup {[Signature EXCEPT ![i] = 0] \o IhdrChunk(1, 1, 8, 0) : i \in 1..8}

\* image data in two IDAT chunks of different bodies, with ancillary and
\* PLTE chunks before, between and behind them
InterleavedTails ==
    { Frame(TagIDAT, <<120, 1>>, Crc0) \o Frame(TagText, <<7>>, Crc0)
          \o Frame(TagIDAT, <<218>>, Crc0) \o Frame(TagIEND, <<>>, Crc0),
      Frame(TagIDAT, <<218>>, Crc0) \o Frame(TagPLTE, <<>>, Crc0)
          \o Frame(TagIDAT, <<120, 1>>, Crc0) \o Frame(TagIEND, <<>>, Crc0),
      Frame(TagText, <<7>>, Crc0) \o Frame(TagIDAT, <<120, 1>>, Crc0)
          \o Frame(TagIDAT, <<218>>, Crc0) \o Frame(TagText, <<218>>, Crc0)
          \o Frame(TagIEND, <<>>, Crc0) \o Frame(TagIDAT, <<7>>, Crc0),
      Frame(TagIDAT, <<218>>, Crc0) \o Frame(TagText, <<7, 7>>, Crc0)
          \o Frame(TagIDAT, <<218>>, Crc0) \o Frame(TagIDAT, <<120, 1>>, Crc0) }

Streams ==
    BadSignatures \cup {Signature \o f \o t : f \in FirstChunks, t \in Tails}
      \cup {Signature \o IhdrChunk(1, 1, 8, 0) \o t : t \in InterleavedTails}

\* ------------------------------------------------------------------------
\* The decompressor (flate2::write::ZlibDecoder / DeflateDecoder) is a
\* library boundary: what it inflates from the bytes fed to it is the
\* environment's choice, a byte string of DecompOuts or a corrupt-stream
\* error.  Its Writer keeps the output of a call in its buffer and hands it
\* to the inner Renderer::write at the start of the next call, or when it
\* is dropped.  write_all(body) is a loop of such calls: each dumps the
\* buffer and inflates one piece, as much as the Writer's buffer holds, and
\* does so again while the inflater takes no input, so a body is inflated in
\* one piece or in several, and every piece but the last reaches
\* Renderer::write, one call per piece, before write_all returns.  The drop
\* runs finish(): it dumps the buffer and inflates what the inflater still
\* holds, piece by piece, dumping each, until nothing more comes out.
\* ------------------------------------------------------------------------
MaxOut == 2

OutBytes == {0, 9}

DecompOuts == SeqsUpTo(OutBytes, MaxOut)

\* the pieces one call of the Writer may inflate and a later call dump
OutPieces == DecompOuts \ {<<>>}

\* what finish() may still inflate after its first dump of the buffer
\* `buffered`, in pieces: nothing when the buffer was empty, for the
\* inflater holds output back only when the buffer was full
FinishSplits(buffered) ==
    IF buffered = <<>> THEN {<<>>}
    ELSE {q \in SeqsUpTo(OutPieces, MaxOut) : Len(Concat(q)) <= MaxOut}

\* the ways write_all may inflate a body: the pieces in order, the last of
\* them, which may be empty, left in the buffer
DecompSplits ==
    {p \in {Append(q, last) : q \in SeqsUpTo(OutPieces, MaxOut), last \in DecompOuts} :
        Len(Concat(p)) <= MaxOut}

NoRenderer == [frame |-> FALSE]

Running == [status |-> "Running", err |-> NoErr]

Done(status, e) == [status |-> status, err |-> e]

\* impl From<std::io::Error> for Error, for an error that Renderer::write
\* wrapped with std::io::Error::other: both snapshots give the inner Error back
from_io_error_inner(impl_, e) == e

\* the same for the decompressor's own "corrupt deflate stream" error:
\* parse/error.rs keeps it as IoError, render/error.rs defaults to Unknown
from_io_error_corrupt(impl_) ==
    IF impl_ = "parse" THEN Err("IoError", <<>>) ELSE Err("Unknown", <<>>)

\* streams of every (bit depth, colour type) pair and width up to MaxWidth
FormatTails ==
    { Frame(TagIDAT, <<120, 1>>, Crc0) \o Frame(TagIDAT, <<>>, Crc0) \o Frame(TagIEND, <<>>, Crc0),
      Frame(TagPLTE, <<>>, Crc0) \o Frame(TagText, <<7>>, Crc0)
          \o Frame(TagIDAT, <<120, 1>>, Crc0) \o IhdrChunk(1, 1, 8, 0),
      Frame(TagIDAT, <<120, 1>>, Crc0) }

FormatStreams ==
    {Signature \o IhdrChunk(w, 1, bd, ct) \o t :
        w \in 0..MaxWidth, bd \in {1, 2, 4, 8, 16}, ct \in {0, 2, 3, 4, 6}, t \in FormatTails}

Impls == {"parse", "render"}

Builds == {"debug", "release"}

\* the state render starts in on the stream `stream`; parse.rs has no
\* unchecked arithmetic, so build is varied for render.rs only
InitOn(S) ==
    /\ impl \in Impls
    /\ build \in Builds
    /\ impl = "parse" => build = "release"
    /\ stream \in S
    /\ pc = "header"
    /\ remaining = stream
    /\ chunks = <<>>
    /\ renderer = NoRenderer
    /\ fed = <<>>
    /\ pending = <<>>
    /\ writes = <<>>
    /\ drawn = <<>>
    /\ result = Running
    /\ HostOff

Init == InitOn(Streams)

InitFormats == InitOn(FormatStreams)

\* render: `let (data, _) = header(data)?;`
Header ==
    /\ pc = "header"
    /\ \E h \in {header(remaining)} :
         IF h.ok
         THEN /\ remaining' = h.rest
              /\ pc' = "ihdr"
              /\ result' = result
         ELSE /\ remaining' = remaining
              /\ pc' = "done"
              /\ result' = Done("Err", h.err)
    /\ UNCHANGED <<state, viewer, task, before, impl, build, stream, chunks, renderer, fed, pending, writes, drawn>>

\* Renderer::new on the header chunk c, wrapped in the decompressor.
\* render.rs drops the remaining input of the header parse (`_data`) and
\* starts the chunk loop at the header chunk again.
NewRenderer(c, n) ==
    IF n.ok
    THEN /\ renderer' = n.out
         /\ remaining' = IF impl = "parse" THEN c.rest ELSE remaining
         /\ pc' = "loop"
         /\ result' = result
    ELSE /\ pc' = "done"
         /\ result' = Done("Err", n.err)
         /\ UNCHANGED <<remaining, renderer>>

\* a let-else that reports the other critical chunk as missing
expect_ihdr_names_iend(c) ==
    IF c.type = "Ihdr"
    THEN [ok |-> TRUE, err |-> NoErr]
    ELSE [ok |-> FALSE, err |-> Err("MissingCritical", <<"IEND">>)]

\* render: `let Chunk::Ihdr { .. } = chunk else { return Err(..) }`
expect_ihdr(c) ==
    IF c.type = "Ihdr"
    THEN [ok |-> TRUE, err |-> NoErr]
    ELSE [ok |-> FALSE, err |-> Err("MissingCritical", <<"IHDR">>)]

\* render: the first chunk, which must be Chunk::Ihdr
FirstChunk ==
    /\ pc = "ihdr"
    /\ \E c \in {chunk(remaining)} :
         IF ~c.ok
         THEN /\ pc' = "done"
              /\ result' = Done("Err", c.err)
              /\ UNCHANGED <<remaining, chunks, renderer>>
         ELSE IF ~expect_ihdr(c.out).ok
         THEN /\ pc' = "done"
              /\ result' = Done("Err", expect_ihdr(c.out).err)
              /\ chunks' = Append(chunks, c.out)
              /\ UNCHANGED <<remaining, renderer>>
         ELSE /\ chunks' = Append(chunks, c.out)
              /\ NewRenderer(c, Renderer_new(c.out.width, c.out.height, c.out.bit_depth,
                                             c.out.color_type, c.out.interlace))
    /\ UNCHANGED <<state, viewer, task, before, impl, build, stream, fed, pending, writes, drawn>>

\* the decompressor's write_all(body) for a non-empty body, inflated in the
\* pieces `pieces`.  Every call of the Writer first dumps its buffer into
\* Renderer::write (an error or a panic leaves the buffer as it is and ends
\* write_all; in the first call nothing is fed then), and then inflates
\* the next piece into the buffer; the last piece stays buffered.
\* dump(r, buf) is one dump of the Writer's buffer.
dump(impl_, build_, r, buf) ==
    IF buf = <<>>
    THEN [res |-> "Ok", err |-> NoErr, draws |-> <<>>, r |-> r]
    ELSE write(impl_, build_, r, buf)

NonEmpty(buf) == IF buf = <<>> THEN <<>> ELSE <<buf>>

\* after the first dump succeeded: w is the outcome of the latest dump, of
\* the buffer `dumped`; pieces are those not yet inflated, writes_ and draws
\* what the dumps before the latest one gave
RECURSIVE decoder_write_all_2(_, _, _, _, _, _, _, _)
decoder_write_all_2(impl_, build_, w, dumped, pieces, body, writes_, draws) ==
    IF w.res # "Ok"
    THEN [res |-> w.res, err |-> w.err, r |-> w.r, buffered |-> dumped, fed |-> body,
          writes |-> writes_ \o NonEmpty(dumped), draws |-> draws \o w.draws]
    ELSE IF Len(pieces) = 1
    THEN [res |-> "Ok", err |-> NoErr, r |-> w.r, buffered |-> pieces[1], fed |-> body,
          writes |-> writes_ \o NonEmpty(dumped), draws |-> draws \o w.draws]
    ELSE decoder_write_all_2(impl_, build_, dump(impl_, build_, w.r, Head(pieces)),
                             Head(pieces), Tail(pieces), body,
                             writes_ \o NonEmpty(dumped), draws \o w.draws)

\* after the first dump gave w1
decoder_write_all_1(impl_, build_, w1, buffered, body, pieces) ==
    IF w1.res # "Ok"
    THEN [res |-> w1.res, err |-> w1.err, r |-> w1.r, buffered |-> buffered,
          fed |-> <<>>, writes |-> NonEmpty(buffered), draws |-> w1.draws]
    ELSE decoder_write_all_2(impl_, build_, w1, buffered, pieces, body, <<>>, <<>>)

decoder_write_all(impl_, build_, r, buffered, body, pieces) ==
    decoder_write_all_1(impl_, build_, dump(impl_, build_, r, buffered), buffered, body, pieces)

\* where a decode goes after a write_all outcome: on with the loop, or out
\* of render with the decompressor dropped, at the `?` of an error or while
\* a panic unwinds
pc_after(res) == CASE res = "Ok" -> "loop" [] res = "Err" -> "drop" [] res = "Panic" -> "drop"

\* chunk loop, Chunk::Ihdr arm
LoopIhdr ==
    /\ pc = "loop"
    /\ \E c \in {chunk(remaining)} :
         /\ c.ok
         /\ c.out.type = "Ihdr"
         /\ remaining' = c.rest
         /\ chunks' = Append(chunks, c.out)
    /\ result' = Done("Err", Err("DuplicateIhdr", <<>>))
    /\ pc' = "drop"
    /\ UNCHANGED <<state, viewer, task, before, impl, build, stream, renderer, fed, pending, writes, drawn>>

\* chunk loop, Chunk::Plte arm
LoopPlte ==
    /\ pc = "loop"
    /\ \E c \in {chunk(remaining)} :
         /\ c.ok
         /\ c.out.type = "Plte"
         /\ remaining' = c.rest
         /\ chunks' = Append(chunks, c.out)
         /\ renderer' = set_palette(renderer, c.out.colors)
    /\ UNCHANGED <<state, viewer, task, before, impl, build, stream, pc, fed, pending, writes, drawn, result>>

\* a chunk loop that puts each IDAT body in front of what was fed before
IdatEffect_prepends(w, corrupt) ==
    /\ renderer' = w.r
    /\ pending' = w.buffered
    /\ fed' = w.fed \o fed
    /\ writes' = writes \o w.writes
    /\ drawn' = drawn \o w.draws
    /\ pc' = IF corrupt /\ w.res = "Ok" THEN "drop" ELSE pc_after(w.res)
    /\ result' = IF w.res # "Ok" THEN Done(w.res, from_io_error_inner(impl, w.err))
                 ELSE IF corrupt THEN Done("Err", from_io_error_corrupt(impl))
                 ELSE result

\* the effect of decoder.write_all with outcome w of decoder_write_all;
\* corrupt: write_all ends with an error of the decompressor's own, a
\* corrupt stream or bytes behind the end of the stream (WriteZero), after
\* the dumps of this call; what was inflated and not dumped stays buffered
IdatEffect(w, corrupt) ==
    /\ renderer' = w.r
    /\ pending' = w.buffered
    /\ fed' = fed \o w.fed
    /\ writes' = writes \o w.writes
    /\ drawn' = drawn \o w.draws
    /\ pc' = IF corrupt /\ w.res = "Ok" THEN "drop" ELSE pc_after(w.res)
    /\ result' = IF w.res # "Ok" THEN Done(w.res, from_io_error_inner(impl, w.err))
                 ELSE IF corrupt THEN Done("Err", from_io_error_corrupt(impl))
                 ELSE result

\* chunk loop, Chunk::Idat arm: decoder.write_all(data)
LoopIdat ==
    /\ pc = "loop"
    /\ \E c \in {chunk(remaining)} :
         /\ c.ok
         /\ c.out.type = "Idat"
         /\ remaining' = c.rest
         /\ chunks' = Append(chunks, c.out)
         /\ \/ /\ c.out.data = <<>>
               /\ UNCHANGED <<pc, renderer, fed, pending, writes, drawn, result>>
            \/ /\ c.out.data # <<>>
               /\ \E pieces \in DecompSplits : \E corrupt \in {FALSE, TRUE} :
                    /\ IdatEffect(decoder_write_all(impl, build, renderer, pending,
                                                    c.out.data, pieces), corrupt)
    /\ UNCHANGED <<state, viewer, task, before, impl, build, stream>>

\* chunk loop, Chunk::Iend arm
LoopIend ==
    /\ pc = "loop"
    /\ \E c \in {chunk(remaining)} :
         /\ c.ok
         /\ c.out.type = "Iend"
         /\ remaining' = c.rest
         /\ chunks' = Append(chunks, c.out)
    /\ result' = Done("Ok", NoErr)
    /\ pc' = "drop"
    /\ UNCHANGED <<state, viewer, task, before, impl, build, stream, renderer, fed, pending, writes, drawn>>

\* chunk loop, Chunk::Unknown arm
LoopUnknown ==
    /\ pc = "loop"
    /\ \E c \in {chunk(remaining)} :
         /\ c.ok
         /\ c.out.type = "Unknown"
         /\ remaining' = c.rest
         /\ chunks' = Append(chunks, c.out)
    /\ UNCHANGED <<state, viewer, task, before, impl, build, stream, pc, renderer, fed, pending, writes, drawn, result>>

\* the nom iterator ends the loop at the first chunk that does not parse
\* (exhausted input included), whatever its error; render then returns
\* MissingCritical("IEND")
LoopEnd ==
    /\ pc = "loop"
    /\ ~chunk(remaining).ok
    /\ result' = Done("Err", Err("MissingCritical", <<"IEND">>))
    /\ pc' = "drop"
    /\ UNCHANGED <<state, viewer, task, before, impl, build, stream, remaining, chunks, renderer, fed, pending, writes, drawn>>

\* the Writer's finish(): a loop that dumps the buffer into Renderer::write
\* and inflates the next piece into it, until the inflater gives no more;
\* an error or a panic of a dump ends it with the buffer as it is.
\* w is the outcome of the latest dump, of the buffer `dumped`; pieces are
\* those not yet inflated, writes_ and draws what the dumps before gave
RECURSIVE decoder_finish(_, _, _, _, _, _, _)
decoder_finish(impl_, build_, w, dumped, pieces, writes_, draws) ==
    IF w.res # "Ok"
    THEN [res |-> w.res, err |-> w.err, r |-> w.r, buffered |-> dumped,
          writes |-> writes_ \o NonEmpty(dumped), draws |-> draws \o w.draws]
    ELSE IF pieces = <<>>
    THEN [res |-> "Ok", err |-> NoErr, r |-> w.r, buffered |-> <<>>,
          writes |-> writes_ \o NonEmpty(dumped), draws |-> draws \o w.draws]
    ELSE decoder_finish(impl_, build_, dump(impl_, build_, w.r, Head(pieces)),
                        Head(pieces), Tail(pieces),
                        writes_ \o NonEmpty(dumped), draws \o w.draws)

\* the effect of the Writer's Drop with outcome w of its finish(): an error
\* is ignored, a panic is not; a decode that panicked stays panicked
DropEffect(w) ==
    /\ renderer' = w.r
    /\ pending' = w.buffered
    /\ writes' = writes \o w.writes
    /\ drawn' = drawn \o w.draws
    /\ result' = IF w.res = "Panic" THEN Done("Panic", NoErr) ELSE result

\* render returns and the decompressor is dropped: its Drop runs finish()
DropDecoder ==
    /\ pc = "drop"
    /\ pc' = "done"
    /\ \E pieces \in FinishSplits(pending) :
         DropEffect(decoder_finish(impl, build, dump(impl, build, renderer, pending),
                                   pending, pieces, <<>>, <<>>))
    /\ UNCHANGED <<state, viewer, task, before, impl, build, stream, remaining, chunks, fed>>

Next ==
    \/ Header
    \/ FirstChunk
    \/ LoopIhdr
    \/ LoopPlte
    \/ LoopIdat
    \/ LoopIend
    \/ LoopUnknown
    \/ LoopEnd
    \/ DropDecoder

Spec == Init /\ [][Next]_vars

SpecFormats == InitFormats /\ [][Next]_vars

\* ------------------------------------------------------------------------
\* The chunk parser of render/parse.rs, which bin/print_chunks.rs calls as
\* parse::chunk.  Its framing, ihdr, iend and unknown are those of
\* render/chunks.rs; its plte converts the body to colours and hands back
\* what the conversion left, and its idat keeps no data.
\* ------------------------------------------------------------------------
\* the colours that iterator(input, map(take(3), from_rgb8)) collects
parse_colors(input) ==
    [k \in 1..(Len(input) \div 3) |->
        from_rgb8(input[3 * k - 2], input[3 * k - 1], input[3 * k])]

\* render/parse.rs fn plte
parse_plte(input) ==
    IF Len(input) % 3 > 0 \/ Len(input) > 256 * 3
    THEN Fail("Failure", Err("InvalidPaletteSize", <<Len(input)>>))
    ELSE Ok(Drop(input, 3 * (Len(input) \div 3)),
            [type |-> "Plte", colors |-> parse_colors(input)])

\* render/parse.rs fn idat
parse_idat(input) == Ok(<<>>, [type |-> "Idat"])

\* render/parse.rs: the body parser chosen by the case-folded tag
parse_chunk_body(ty_upper, chunk_data) ==
    CASE ty_upper = TagIHDR -> ihdr(chunk_data)
      [] ty_upper = TagPLTE -> parse_plte(chunk_data)
      [] ty_upper = TagIDAT -> parse_idat(chunk_data)
      [] ty_upper = TagIEND -> iend(chunk_data)
      [] OTHER -> unknown(chunk_data)

\* render/parse.rs pub fn chunk
parse_chunk(input) ==
    LET length == be_u32(input) IN
    IF ~length.ok THEN length ELSE
    LET ty == take_while_m_n(length.rest) IN
    IF ~ty.ok THEN ty ELSE
    LET critical == is_ascii_uppercase(ty.out[1])
        data == take(length.out, ty.rest) IN
    IF ~data.ok THEN data ELSE
    LET crc == take(4, data.rest) IN
    IF ~crc.ok THEN crc ELSE
    LET ty_upper == make_ascii_uppercase(ty.out) IN
    IF ty_upper \notin {TagIHDR, TagPLTE, TagIDAT, TagIEND} /\ critical
    THEN Fail("Failure", Err("UnknownCriticalChunk", ty_upper))
    ELSE LET body == all_consuming(parse_chunk_body(ty_upper, data.out)) IN
         IF ~body.ok THEN body ELSE Ok(crc.rest, body.out)

\* ------------------------------------------------------------------------
\* The chunk parser on its own: one call of chunk (the unit tests'
\* `preceded(header, chunk)`), and nom's iterator(input, chunk) run to its
\* end and finished.  impl tells whose parser runs: "render" is
\* render/chunks.rs, as in the tests of render.rs (iend_is_last), and
\* "print_chunks" is render/parse.rs, as in bin/print_chunks.rs.
\* ------------------------------------------------------------------------
ChunkImpls == {"render", "print_chunks"}

\* the chunk parser of the program impl_
chunk_of(impl_, input) ==
    IF impl_ = "print_chunks" THEN parse_chunk(input) ELSE chunk(input)

TagLowerCritical == <<97, 66, 67, 68>>

TagGama == <<103, 65, 77, 65>>

TagUpper == <<90, 122, 122, 122>>

UnknownTags == {TagText, TagCritical, TagLowerCritical, TagGama, TagUpper}

BodyBytes == {0, 200}

Bodies == SeqsUpTo(BodyBytes, MaxBody)

Zeros(n) == [i \in 1..n |-> 0]

IendChunk == Frame(TagIEND, <<>>, Crc0)

Follows == {<<>>, IendChunk, <<9>>}

UnknownInputs ==
    {Frame(ty, body, Crc0) \o f : ty \in UnknownTags, body \in SeqsUpTo(BodyBytes, 2), f \in Follows}

IhdrBodies ==
    {IhdrBody(w, 165, bd, ct, comp, filt, il) :
        w \in {1, 293}, bd \in {0, 1, 3, 8, 16}, ct \in {0, 1, 3, 5, 6},
        comp \in {0, 1}, filt \in {0, 1}, il \in {0, 1, 2}}

IhdrInputs ==
    {Frame(TagIHDR, body, Crc0) : body \in IhdrBodies}
      \cup {Frame(TagIHDR, Take(IhdrBody(293, 165, bd, 2, 0, 0, il), n), Crc0) \o f :
               bd \in {8, 3}, il \in {0, 2}, n \in {0, 3, 8, 9, 10, 12}, f \in Follows}
      \cup {Frame(TagIHDR, IhdrBody(293, 165, bd, 2, 0, 0, il) \o <<0>>, Crc0) \o f :
               bd \in {8, 3}, il \in {0, 2}, f \in Follows}

PlteInputs ==
    {Frame(TagPLTE, body, Crc0) \o f :
        body \in Bodies \cup {Zeros(768), Zeros(769), Zeros(771)}, f \in Follows}

OtherInputs ==
    {Frame(ty, body, Crc0) \o f :
        ty \in {TagIDAT, TagIEND}, body \in SeqsUpTo(BodyBytes, 1), f \in Follows}
      \cup {<<>>, <<0, 0, 0>>, <<0, 0, 0, 0, 73, 72>>, <<0, 0, 0, 0, 73, 72, 48, 82>>,
            <<0, 0, 0, 2>> \o TagIDAT \o <<1>>, <<0, 0, 0, 1>> \o TagIDAT \o <<1, 0, 0>>}

\* checksum fields that are not the checksum of anything
Crcs == {<<222, 173, 190, 239>>, <<0, 0, 0, 1>>}

\* chunks of every kind with such a checksum
CrcInputs ==
    {Frame(ty, body, crc) \o f :
        ty \in {TagIDAT, TagIEND, TagText, TagCritical}, body \in SeqsUpTo(BodyBytes, 1),
        crc \in Crcs, f \in Follows}
      \cup {Frame(TagIHDR, IhdrBody(293, 165, bd, 2, 0, 0, 0), crc) \o f :
               bd \in {8, 3}, crc \in Crcs, f \in Follows}
      \cup {Frame(TagPLTE, body, crc) \o f :
               body \in {<<>>, <<10, 20, 30>>}, crc \in Crcs, f \in Follows}

\* bytes next to the ASCII letters, and one above 127
NonLetters == {48, 64, 91, 96, 123, 233}

\* whole records whose type has one byte that is not a letter, and records
\* cut short in the body or in the checksum
FramingInputs ==
    {Frame([TagIDAT EXCEPT ![i] = b], body, Crc0) \o f :
        i \in 1..4, b \in NonLetters, body \in SeqsUpTo(BodyBytes, 1), f \in {<<>>, IendChunk}}
      \cup {Take(Frame(ty, <<0, 200>>, Crc0), n) : ty \in {TagIDAT, TagText}, n \in 8..13}

ChunkInputs ==
    UnknownInputs \cup IhdrInputs \cup PlteInputs \cup OtherInputs \cup CrcInputs
      \cup FramingInputs

\* concatenations of well-formed chunks: a valid IHDR, optionally a PLTE of
\* one or two entries, up to MaxTail IDAT and ancillary chunks, an empty IEND
MiddleChunks ==
    { Frame(TagIDAT, <<120, 1>>, Crc0),
      Frame(TagIDAT, <<>>, Crc0),
      Frame(TagText, <<7>>, Crc0),
      Frame(TagGama, <<0, 0, 177, 143>>, Crc0) }

WellFormedInputs ==
    {IhdrChunk(293, 165, 8, ct) \o pl \o Concat(m) \o IendChunk :
        ct \in {2, 3},
        pl \in {<<>>, Frame(TagPLTE, <<10, 20, 30>>, Crc0),
                Frame(TagPLTE, <<10, 20, 30, 40, 50, 60>>, Crc0)},
        m \in SeqsUpTo(MiddleChunks, MaxTail)}

IterInputs ==
    WellFormedInputs
      \cup {IhdrChunk(1, 1, 8, 0) \o t : t \in Tails}

InitChunk ==
    /\ impl \in ChunkImpls
    /\ build = "release"
    /\ \/ pc = "chunk" /\ stream \in ChunkInputs
       \/ pc = "iter" /\ stream \in IterInputs
    /\ remaining = stream
    /\ chunks = <<>>
    /\ renderer = NoRenderer
    /\ fed = <<>>
    /\ pending = <<>>
    /\ writes = <<>>
    /\ drawn = <<>>
    /\ result = Running
    /\ HostOff

\* one call chunk(input): the outcome with its severity
ChunkParse ==
    /\ pc = "chunk"
    /\ pc' = "parsed"
    /\ \E c \in {chunk_of(impl, remaining)} :
         IF c.ok
         THEN /\ remaining' = c.rest
              /\ chunks' = Append(chunks, c.out)
              /\ result' = Done("Ok", NoErr)
         ELSE /\ result' = Done(c.sev, c.err)
              /\ UNCHANGED <<remaining, chunks>>
    /\ UNCHANGED <<state, viewer, task, before, impl, build, stream, renderer, fed, pending, writes, drawn>>

\* ParserIterator::next, the parser succeeded: the chunk is yielded
IterYield ==
    /\ pc = "iter"
    /\ \E c \in {chunk_of(impl, remaining)} :
         /\ c.ok
         /\ remaining' = c.rest
         /\ chunks' = Append(chunks, c.out)
    /\ UNCHANGED <<state, viewer, task, before, impl, build, stream, pc, renderer, fed, pending, writes, drawn, result>>

\* ParserIterator::next, Err::Error: the iterator is Done and the error dropped
IterDone ==
    /\ pc = "iter"
    /\ \E c \in {chunk_of(impl, remaining)} :
         /\ ~c.ok
         /\ c.sev = "Error"
    /\ pc' = "finish"
    /\ result' = Done("Done", NoErr)
    /\ UNCHANGED <<state, viewer, task, before, impl, build, stream, remaining, chunks, renderer, fed, pending, writes, drawn>>

\* ParserIterator::next, Err::Failure: the iterator keeps the error
IterFailure ==
    /\ pc = "iter"
    /\ \E c \in {chunk_of(impl, remaining)} :
         /\ ~c.ok
         /\ c.sev = "Failure"
         /\ result' = Done("Failure", c.err)
    /\ pc' = "finish"
    /\ UNCHANGED <<state, viewer, task, before, impl, build, stream, remaining, chunks, renderer, fed, pending, writes, drawn>>

\* ParserIterator::finish: the remaining input, or the kept failure
IterFinish ==
    /\ pc = "finish"
    /\ pc' = "finished"
    /\ result' = IF result.status = "Failure" THEN Done("Err", result.err) ELSE Done("Ok", NoErr)
    /\ UNCHANGED <<state, viewer, task, before, impl, build, stream, remaining, chunks, renderer, fed, pending, writes, drawn>>

NextChunk ==
    \/ ChunkParse
    \/ IterYield
    \/ IterDone
    \/ IterFailure
    \/ IterFinish

SpecChunk == InitChunk /\ [][NextChunk]_vars

\* ------------------------------------------------------------------------
\* The scanline filter on its own: an encoder filters a raw scanline with
\* the standard forward PNG filter, Renderer::filter reconstructs it
\* ------------------------------------------------------------------------
\* the pixels a scanline is made of, for 8-bit and for 16-bit GrayScale
Pixels(bit_depth) ==
    IF bit_depth = "Eight" THEN {<<0>>, <<1>>, <<255>>}
    ELSE {<<0, 0>>, <<0, 255>>, <<255, 1>>}

RECURSIVE LinesOf(_, _)
LinesOf(P, n) ==
    IF n = 0 THEN {<<>>} ELSE {l \o px : l \in LinesOf(P, n - 1), px \in P}

PaethPredictor(a, b, c) ==
    LET p == a + b - c
        pa == Abs(p - a)
        pb == Abs(p - b)
        pc_ == Abs(p - c)
    IN IF pa <= pb /\ pa <= pc_ THEN a ELSE IF pb <= pc_ THEN b ELSE c

\* the forward filter of the PNG specification: byte x (1-based) of the
\* filtered line of raw, given the reconstructed line above (prior, empty
\* for the first row) and the bytes per complete pixel
ForwardByte(ft, raw, prior, bpp, x) ==
    LET a == IF x > bpp THEN raw[x - bpp] ELSE 0
        b == IF prior # <<>> THEN prior[x] ELSE 0
        c == IF prior # <<>> /\ x > bpp THEN prior[x - bpp] ELSE 0
        predictor == CASE ft = 0 -> 0
                       [] ft = 1 -> a
                       [] ft = 2 -> b
                       [] ft = 3 -> (a + b) \div 2
                       [] ft = 4 -> PaethPredictor(a, b, c)
    IN (raw[x] + 256 - predictor) % 256

Forward(ft, raw, prior, bpp) ==
    <<ft>> \o [x \in 1..Len(raw) |-> ForwardByte(ft, raw, prior, bpp, x)]

\* stream is the raw scanline, pending the reconstructed scanline above it,
\* fed the filter type the encoder chose
InitFilter ==
    /\ impl \in Impls
    /\ build \in Builds
    /\ impl = "parse" => build = "release"
    /\ pc = "raw"
    /\ \E bd \in {"Eight", "Sixteen"} : \E w \in 1..MaxWidth :
         /\ renderer = Renderer_new(w, 2, bd, "GrayScale", "None").out
         /\ stream \in LinesOf(Pixels(bd), w)
         /\ pending \in {<<>>} \cup LinesOf(Pixels(bd), w)
    /\ \E ft \in 0..4 : fed = <<ft>>
    /\ remaining = <<>>
    /\ chunks = <<>>
    /\ writes = <<>>
    /\ drawn = <<>>
    /\ result = Running
    /\ HostOff

\* the encoder's side: the filtered line arrives in next_scanline, the
\* line above is in prev_scanline with its cleared filter byte
ForwardFilter ==
    /\ pc = "raw"
    /\ pc' = "filtered"
    /\ renderer' = [renderer EXCEPT
            !.next_scanline = Forward(fed[1], stream, pending, div_ceil(renderer.bits_per_pixel, 8)),
            !.prev_scanline = IF pending = <<>> THEN <<>> ELSE <<0>> \o pending,
            !.scanline = IF pending = <<>> THEN 0 ELSE 1]
    /\ UNCHANGED <<state, viewer, task, before, impl, build, stream, remaining, chunks, fed, pending, writes, drawn, result>>

\* self.filter(): remaining takes the reconstructed bytes
Defilter ==
    /\ pc = "filtered"
    /\ pc' = "defiltered"
    /\ \E f \in {filter(impl, build, renderer)} :
         /\ result' = Done(f.res, IF f.res = "Err" THEN f.err ELSE NoErr)
         /\ renderer' = [renderer EXCEPT !.next_scanline = f.line]
         /\ remaining' = Drop(f.line, 1)
    /\ UNCHANGED <<state, viewer, task, before, impl, build, stream, chunks, fed, pending, writes, drawn>>

NextFilter ==
    \/ ForwardFilter
    \/ Defilter

SpecFilter == InitFilter /\ [][NextFilter]_vars

\* ------------------------------------------------------------------------
\* Renderer::write on its own: a decompressed byte stream handed to a fresh
\* Renderer in successive write calls of any sizes, by a caller that drops
\* from its buffer the count each call reports (std::io::Write::write_all,
\* flate2's Writer::dump)
\* ------------------------------------------------------------------------
MaxStream == 4

MaxWrites == 3

\* filter types None and Paeth, and a byte that is no filter type
StreamBytes == {0, 4, 9}

RawStreams == SeqsUpTo(StreamBytes, MaxStream)

WriteFormats ==
    { [width |-> 1, bit_depth |-> "Eight", color_type |-> "GrayScale"],
      [width |-> 2, bit_depth |-> "Eight", color_type |-> "GrayScale"],
      [width |-> 3, bit_depth |-> "Two", color_type |-> "GrayScale"],
      [width |-> 8, bit_depth |-> "One", color_type |-> "GrayScale"],
      [width |-> 1, bit_depth |-> "Eight", color_type |-> "Rgb"],
      [width |-> 1, bit_depth |-> "Eight", color_type |-> "Palette"],
      [width |-> 1, bit_depth |-> "Sixteen", color_type |-> "GrayScale"] }

\* the renderer of an image of format f with two rows, a Palette image
\* with a palette of five entries
FreshRenderer(f) ==
    IF f.color_type = "Palette"
    THEN set_palette(Renderer_new(f.width, 2, f.bit_depth, f.color_type, "None").out,
                     Colors_new(<<10, 20, 30, 40, 50, 60, 70, 80, 90, 1, 2, 3, 4, 5, 6>>).out)
    ELSE Renderer_new(f.width, 2, f.bit_depth, f.color_type, "None").out

InitWrite ==
    /\ impl \in Impls
    /\ build \in Builds
    /\ impl = "parse" => build = "release"
    /\ stream \in RawStreams
    /\ pc = "idle"
    /\ remaining = stream
    /\ chunks = <<>>
    /\ \E f \in WriteFormats : renderer = FreshRenderer(f)
    /\ fed = <<>>
    /\ pending = <<>>
    /\ writes = <<>>
    /\ drawn = <<>>
    /\ result = Running
    /\ HostOff

\* the caller takes the next n bytes of the stream as its buffer
WriteBegin ==
    /\ pc = "idle"
    /\ Len(writes) < MaxWrites
    /\ \E n \in 0..Len(remaining) :
         /\ pending' = Take(remaining, n)
         /\ remaining' = Drop(remaining, n)
    /\ pc' = "dump"
    /\ UNCHANGED <<state, viewer, task, before, impl, build, stream, chunks, renderer, fed, writes, drawn, result>>

\* the effect of one call write(buf) with outcome w
WriteEffect(w, buf) ==
    /\ renderer' = w.r
    /\ drawn' = drawn \o w.draws
    /\ writes' = Append(writes, buf)
    /\ pending' = Drop(buf, write_count(w, buf))
    /\ pc' = IF w.res = "Ok" THEN "idle" ELSE "done"
    /\ result' = IF w.res = "Ok" THEN result ELSE Done(w.res, w.err)

\* Renderer::write(buf) on the caller's buffer
WriteCall ==
    /\ pc = "dump"
    /\ WriteEffect(write(impl, build, renderer, pending), pending)
    /\ UNCHANGED <<state, viewer, task, before, impl, build, stream, remaining, chunks, fed>>

NextWrite ==
    \/ WriteBegin
    \/ WriteCall

SpecWrite == InitWrite /\ [][NextWrite]_vars

\* ------------------------------------------------------------------------
\* The host application (src/main.rs, src/load.rs): the Viewer, the
\* background task of a load and the Loaded message it ends with.  load.rs
\* opens the file and sends a new, empty Cache; it does not call the decoder.
\* task.state is where the task stands ("none": no task is alive), and
\* task.result how the last one ended: "Ok" or "Err", the result its Loaded
\* message carries, or "Panic", after which there is no message.
\* ------------------------------------------------------------------------
MaxLoads == 3

\* EMOJIS, by index
Emojis == 1..10

\* Viewer::default
Viewer_default(emoji) == [state |-> "Unloaded", emoji |-> emoji]

\* Viewer::is_loading
is_loading(v) == v.state = "Loading"

\* Cache::new() of the n-th load: a cache that holds no geometry
Cache_new(n) == [id |-> n, geometry |-> <<>>]

\* Program::draw for Viewer: the geometries handed to the canvas
Viewer_draw(v) ==
    CASE v.state = "Loaded" -> <<[of |-> "cache", content |-> v.cache.geometry, id |-> v.cache.id]>>
      [] v.state = "Loading" -> <<>>
      [] v.state = "Unloaded" -> <<[of |-> "text", content |-> <<v.emoji>>, id |-> 0]>>

\* oneshot::Receiver::try_recv on a channel holding the values chan
try_recv(chan) ==
    IF chan = <<>> THEN [ok |-> FALSE] ELSE [ok |-> TRUE, out |-> chan[1]]

\* Viewer::loaded
Viewer_loaded(v, res) ==
    IF v.state = "Loading"
    THEN IF res = "Err" THEN v
         ELSE IF try_recv(v.cache_recv).ok
              THEN [state |-> "Loaded", cache |-> try_recv(v.cache_recv).out]
              ELSE v
    ELSE v

InitViewer ==
    /\ impl = "parse"
    /\ build = "release"
    /\ stream = <<>>
    /\ pc = "off"
    /\ remaining = <<>>
    /\ chunks = <<>>
    /\ renderer = NoRenderer
    /\ fed = <<>>
    /\ pending = <<>>
    /\ writes = <<>>
    /\ drawn = <<>>
    /\ result = Running
    /\ \E e \in Emojis : viewer = Viewer_default(e)
    /\ task = NoTask
    /\ before = <<>>
    /\ state = State_default

\* Message::Load, which the Open button sends while the viewer is not
\* loading: Viewer::load with the file dialog's outcome
Load ==
    /\ ~is_loading(viewer)
    /\ task.state = "none"
    /\ task.loads < MaxLoads
    /\ before' = Viewer_draw(viewer)
    /\ \E dialog \in {"Some", "None", "Err"} :
         IF is_loading(viewer) \/ dialog # "Some"
         THEN /\ viewer' = viewer
              /\ task' = [task EXCEPT !.loads = @ + 1, !.result = ""]
         ELSE /\ viewer' = [state |-> "Loading", cache_recv |-> <<>>]
              /\ task' = [state |-> "running", result |-> "", loads |-> task.loads + 1]
    /\ UNCHANGED <<decode, state>>

\* load::load up to its first await, `File::open(path).await?`: the open
\* fails and the task ends with the error, or the file is open and the task
\* stands at `file.metadata().await`, the runtime free to run in between
LoadOpen ==
    /\ task.state = "running"
    /\ \E opened \in BOOLEAN :
         IF opened
         THEN task' = [task EXCEPT !.state = "opened"]
         ELSE task' = [task EXCEPT !.state = "finished", !.result = "Err"]
    /\ UNCHANGED <<decode, before, state, viewer>>

\* load::load from the metadata of the open file to its end:
\* `file.metadata().await.unwrap()` panics when the metadata cannot be
\* read, and the task is gone without a result or a message; otherwise the
\* new cache is sent to the receiver the viewer holds, or the send fails
\* because the receiver is gone
LoadSend ==
    /\ task.state = "opened"
    /\ \E metadata \in {"Ok", "Err"} :
         IF metadata = "Err"
         THEN /\ task' = [task EXCEPT !.state = "none", !.result = "Panic"]
              /\ viewer' = viewer
         ELSE IF is_loading(viewer)
         THEN /\ task' = [task EXCEPT !.state = "finished", !.result = "Ok"]
              /\ viewer' = [viewer EXCEPT !.cache_recv = <<Cache_new(task.loads)>>]
         ELSE /\ task' = [task EXCEPT !.state = "finished", !.result = "Err"]
              /\ viewer' = viewer
    /\ UNCHANGED <<decode, before, state>>

\* Application::update on Message::Loaded(result)
Loaded ==
    /\ task.state = "finished"
    /\ viewer' = Viewer_loaded(viewer, task.result)
    /\ task' = [task EXCEPT !.state = "none"]
    /\ UNCHANGED <<decode, before, state>>

NextViewer ==
    \/ Load
    \/ LoadOpen
    \/ LoadSend
    \/ Loaded

SpecViewer == InitViewer /\ [][NextViewer]_vars

\* the runtime delivers the message a task has ended with.  Nothing is
\* assumed about the task itself: File::open and metadata() return when the
\* file system lets them, which may be never
SpecViewerLive ==
    SpecViewer /\ WF_vars(Loaded)

\* ------------------------------------------------------------------------
\* Renderer::render on its own: one reconstructed scanline of a format with
\* whole-byte pixels, its bytes all different, is decoded into draw calls
\* ------------------------------------------------------------------------
\* the formats with bits_per_pixel >= 8 that have colour channels
ByteFormats ==
    {[bit_depth |-> bd, color_type |-> ct] :
        bd \in {"Eight", "Sixteen"}, ct \in {"GrayScale", "Rgb", "GrayScaleAlpha", "RgbAlpha"}}

\* n bytes counting up from first + 1
Ramp(first, n) == [i \in 1..n |-> first + i]

RampStarts == {0, 100, 200}

\* a renderer of format f and width w whose current buffer holds a whole
\* reconstructed scanline
WithScanline(r, first) ==
    [r EXCEPT !.next_scanline = <<0>> \o Ramp(first, r.scanline_len - 1)]

InitRender ==
    /\ impl \in Impls
    /\ build \in Builds
    /\ impl = "parse" => build = "release"
    /\ pc = "scanline"
    /\ \E f \in ByteFormats : \E w \in 1..MaxWidth : \E first \in RampStarts :
         renderer = WithScanline(Renderer_new(w, 1, f.bit_depth, f.color_type, "None").out, first)
    /\ stream = renderer.next_scanline
    /\ remaining = <<>>
    /\ chunks = <<>>
    /\ fed = <<>>
    /\ pending = <<>>
    /\ writes = <<>>
    /\ drawn = <<>>
    /\ result = Running
    /\ HostOff

\* self.render() on the scanline
RenderScanline ==
    /\ pc = "scanline"
    /\ pc' = "rendered"
    /\ \E p \in {render_scanline(impl, renderer)} :
         /\ drawn' = p.draws
         /\ renderer' = after_render(impl, renderer, p)
         /\ result' = Done(p.res, p.err)
    /\ UNCHANGED <<state, viewer, task, before, impl, build, stream, remaining, chunks, fed,
                   pending, writes>>

NextRender == RenderScanline

SpecRender == InitRender /\ [][NextRender]_vars

\* ------------------------------------------------------------------------
\* The zoom level (State::zoom_in, State::zoom_out, State::zoom_toggle),
\* driven by a script of calls made on a fresh State
\* ------------------------------------------------------------------------
MaxCalls == 5

Calls == {"zoom_in", "zoom_out", "zoom_toggle"}

\* the place of a level in the enum
LevelIndex(z) == CHOOSE i \in 1..Len(Levels) : Levels[i] = z

\* State::zoom_in with X4 left for X1
zoom_in_wraps(s) ==
    IF s.zoom = "X4"
    THEN [state |-> [s EXCEPT !.zoom = "X1"], zoomed |-> TRUE]
    ELSE [state |-> [s EXCEPT !.zoom = Levels[LevelIndex(s.zoom) + 1]], zoomed |-> TRUE]

\* State::zoom_in: the State afterwards and the value returned
zoom_in(s) ==
    CASE s.zoom = "X1" -> [state |-> [s EXCEPT !.zoom = "X1p5"], zoomed |-> TRUE]
      [] s.zoom = "X1p5" -> [state |-> [s EXCEPT !.zoom = "X2"], zoomed |-> TRUE]
      [] s.zoom = "X2" -> [state |-> [s EXCEPT !.zoom = "X2p5"], zoomed |-> TRUE]
      [] s.zoom = "X2p5" -> [state |-> [s EXCEPT !.zoom = "X3"], zoomed |-> TRUE]
      [] s.zoom = "X3" -> [state |-> [s EXCEPT !.zoom = "X3p5"], zoomed |-> TRUE]
      [] s.zoom = "X3p5" -> [state |-> [s EXCEPT !.zoom = "X4"], zoomed |-> TRUE]
      [] s.zoom = "X4" -> [state |-> [s EXCEPT !.zoom = "X4"], zoomed |-> FALSE]

\* State::zoom_out: the State afterwards and the value returned
zoom_out(s) ==
    CASE s.zoom = "X1" -> [state |-> [s EXCEPT !.zoom = "X1"], zoomed |-> FALSE]
      [] s.zoom = "X1p5" -> [state |-> [s EXCEPT !.zoom = "X1"], zoomed |-> TRUE]
      [] s.zoom = "X2" -> [state |-> [s EXCEPT !.zoom = "X1p5"], zoomed |-> TRUE]
      [] s.zoom = "X2p5" -> [state |-> [s EXCEPT !.zoom = "X2"], zoomed |-> TRUE]
      [] s.zoom = "X3" -> [state |-> [s EXCEPT !.zoom = "X2p5"], zoomed |-> TRUE]
      [] s.zoom = "X3p5" -> [state |-> [s EXCEPT !.zoom = "X3"], zoomed |-> TRUE]
      [] s.zoom = "X4" -> [state |-> [s EXCEPT !.zoom = "X3p5"], zoomed |-> TRUE]

\* State::zoom_toggle: the State afterwards
zoom_toggle(s) ==
    IF s.zoom \in {"X1", "X1p5", "X2", "X2p5", "X3", "X3p5"}
    THEN [s EXCEPT !.zoom = "X4"]
    ELSE [s EXCEPT !.zoom = "X1"]

\* the value a call returned; zoom_toggle returns ()
Returned(v) == [status |-> "Done", err |-> NoErr, zoomed |-> v]

InitZoom ==
    /\ impl = "parse"
    /\ build = "release"
    /\ stream \in SeqsUpTo(Calls, MaxCalls)
    /\ pc = "zoom"
    /\ remaining = stream
    /\ chunks = <<>>
    /\ renderer = NoRenderer
    /\ fed = <<>>
    /\ pending = <<>>
    /\ writes = <<>>
    /\ drawn = <<>>
    /\ result = Running
    /\ viewer = NoViewer
    /\ task = NoTask
    /\ before = <<>>
    /\ state = State_default

\* the next call of the script is made
ZoomCall(name) ==
    /\ pc = "zoom"
    /\ remaining # <<>>
    /\ Head(remaining) = name
    /\ remaining' = Tail(remaining)
    /\ UNCHANGED <<viewer, task, before, impl, build, stream, pc, chunks, renderer, fed,
                   pending, writes, drawn>>

ZoomIn ==
    /\ ZoomCall("zoom_in")
    /\ state' = zoom_in(state).state
    /\ result' = Returned(zoom_in(state).zoomed)

ZoomOut ==
    /\ ZoomCall("zoom_out")
    /\ state' = zoom_out(state).state
    /\ result' = Returned(zoom_out(state).zoomed)

ZoomToggle ==
    /\ ZoomCall("zoom_toggle")
    /\ state' = zoom_toggle(state)
    /\ result' = Returned("()")

NextZoom ==
    \/ ZoomIn
    \/ ZoomOut
    \/ ZoomToggle

SpecZoom == InitZoom /\ [][NextZoom]_vars

\* ------------------------------------------------------------------------
\* Types
\* ------------------------------------------------------------------------
TypeOK ==
    /\ impl \in Impls \cup ChunkImpls
    /\ build \in Builds
    /\ pc \in {"header", "ihdr", "loop", "drop", "done",
              "chunk", "parsed", "iter", "finish", "finished",
              "raw", "filtered", "defiltered",
              "idle", "dump", "off", "scanline", "rendered", "zoom"}
    /\ result.status \in {"Running", "Ok", "Err", "Panic", "Error", "Failure", "Done"}
    /\ (pc = "done") => (result.status # "Running")

\* ------------------------------------------------------------------------
\* Properties of the decode state machine
\* ------------------------------------------------------------------------
HasSignature(s) == Len(s) >= 8 /\ Take(s, 8) = Signature

NothingDecoded ==
    /\ renderer = NoRenderer
    /\ fed = <<>>
    /\ pending = <<>>
    /\ writes = <<>>
    /\ drawn = <<>>

\* C1: decoding goes past the signature only if the first eight bytes are
\* exactly 137 80 78 71 13 10 26 10, and then from the ninth byte on; any
\* other prefix makes the decode fail with no chunk interpreted.
C1_SignatureGate ==
    /\ ~HasSignature(stream) =>
          /\ pc \in {"header", "done"}
          /\ chunks = <<>>
          /\ NothingDecoded
          /\ pc = "done" => result.status = "Err"
    /\ HasSignature(stream) /\ pc = "ihdr" => remaining = Drop(stream, 8)
    /\ HasSignature(stream) /\ pc # "header" =>
          /\ header(stream).ok
          /\ header(stream).rest = Drop(stream, 8)

\* a stream of at least eight bytes, wrong in its last signature byte only,
\* has been rejected
C1_Witness ==
    /\ pc = "done"
    /\ Len(stream) > 8
    /\ Take(stream, 7) = Take(Signature, 7)
    /\ stream[8] # Signature[8]
    /\ result.status = "Err"

\* the claim's table, by the IHDR bytes; 0 where the pair is not in it
ExpectedBitsPerPixel(bd, ct) ==
    CASE ct \in {0, 3} /\ bd \in {1, 2, 4, 8} -> bd
      [] (ct = 4 /\ bd = 8) \/ (ct = 0 /\ bd = 16) -> 16
      [] ct = 2 /\ bd = 8 -> 24
      [] (ct = 6 /\ bd = 8) \/ (ct = 4 /\ bd = 16) -> 32
      [] ct = 2 /\ bd = 16 -> 48
      [] ct = 6 /\ bd = 16 -> 64
      [] OTHER -> 0

HeaderParsed ==
    /\ pc \notin {"header", "ihdr"}
    /\ chunks # <<>>
    /\ chunks[1].type = "Ihdr"

\* C2: a valid header's (bit depth, colour type) pair maps to the bits per
\* pixel of the table (gray and palette at 1, 2, 4, 8 -> the depth; 8-bit
\* gray+alpha and 16-bit gray -> 16; 8-bit RGB -> 24; 8-bit RGBA and 16-bit
\* gray+alpha -> 32; 16-bit RGB -> 48; 16-bit RGBA -> 64); every other pair
\* fails with InvalidBitColorCombo carrying the two bytes, before any byte
\* reaches the decompressor.
C2_BitsPerPixelTable ==
    HeaderParsed =>
        \E bd \in {BitDepth_as_u8(chunks[1].bit_depth)} :
        \E ct \in {ColorType_as_u8(chunks[1].color_type)} :
            IF ExpectedBitsPerPixel(bd, ct) = 0
            THEN /\ pc = "done"
                 /\ result = Done("Err", Err("InvalidBitColorCombo", <<bd, ct>>))
                 /\ NothingDecoded
            ELSE /\ renderer # NoRenderer
                 /\ renderer.bits_per_pixel = ExpectedBitsPerPixel(bd, ct)
                 /\ ~(result.status = "Err" /\ result.err.kind = "InvalidBitColorCombo")

\* a header with bit depth 16 and colour type Palette has been rejected
C2_Witness ==
    /\ HeaderParsed
    /\ chunks[1].bit_depth = "Sixteen"
    /\ chunks[1].color_type = "Palette"
    /\ result = Done("Err", Err("InvalidBitColorCombo", <<16, 3>>))

\* C4: when the first chunk after the signature parses and is not IHDR,
\* the decode fails with MissingCritical("IHDR"): no renderer is built,
\* nothing is fed to the decompressor and nothing is drawn.
C4_FirstChunkMustBeIhdr ==
    (pc \notin {"header", "ihdr"} /\ chunk(Drop(stream, 8)).ok
        /\ chunk(Drop(stream, 8)).out.type # "Ihdr") =>
      /\ pc = "done"
      /\ result = Done("Err", Err("MissingCritical", <<"IHDR">>))
      /\ NothingDecoded

\* a stream whose first chunk is IDAT has been rejected
C4_Witness ==
    /\ pc = "done"
    /\ Len(chunks) = 1
    /\ chunks[1].type = "Idat"
    /\ result.err.kind = "MissingCritical"

\* the type tags of the chunk records input is framed into
RECURSIVE FrameTags(_)
FrameTags(input) ==
    IF Len(input) < 12 THEN <<>>
    ELSE IF Len(input) < 12 + be_u32(input).out THEN <<>>
    ELSE <<SubSeq(input, 5, 8)>> \o FrameTags(Drop(input, 12 + be_u32(input).out))

IhdrCount(s) == Cardinality({i \in 1..Len(FrameTags(s)) : FrameTags(s)[i] = TagIHDR})

\* C5: a decode whose stream holds a second IHDR chunk anywhere after a
\* valid first one ends with DuplicateIhdr.
C5_SecondIhdrAnywhere ==
    (pc = "done" /\ HeaderParsed /\ renderer # NoRenderer
        /\ IhdrCount(Drop(stream, 8)) >= 2) =>
      result = Done("Err", Err("DuplicateIhdr", <<>>))

\* ------------------------------------------------------------------------
\* Properties of the chunk parser
\* ------------------------------------------------------------------------
BE32(s, i) == ((s[i] * 256 + s[i + 1]) * 256 + s[i + 2]) * 256 + s[i + 3]

\* s starts with one whole chunk record
WellFramed(s) == Len(s) >= 12 /\ Len(s) >= 12 + BE32(s, 1)

FirstBody(s) == SubSeq(s, 9, 8 + BE32(s, 1))

AfterFirst(s) == Drop(s, 12 + BE32(s, 1))

IsLetter(b) == b \in 65..90 \/ b \in 97..122

FoldedTag(s) == [i \in 1..4 |-> IF s[4 + i] \in 97..122 THEN s[4 + i] - 32 ELSE s[4 + i]]

UnknownFramed(s) ==
    /\ WellFramed(s)
    /\ \A i \in 5..8 : IsLetter(s[i])
    /\ FoldedTag(s) \notin {TagIHDR, TagPLTE, TagIDAT, TagIEND}

\* C6: on a correctly framed chunk whose case-folded tag is none of IHDR,
\* PLTE, IDAT, IEND the chunk parser fails with the fatal
\* UnknownCriticalChunk when the tag's first letter is upper case, and
\* otherwise returns Unknown, whatever the body, with the input left at the
\* byte after the record's checksum.
C6_UnknownChunk ==
    (pc = "parsed" /\ UnknownFramed(stream)) =>
        IF stream[5] \in 65..90
        THEN /\ result = Done("Failure", Err("UnknownCriticalChunk", FoldedTag(stream)))
             /\ chunks = <<>>
        ELSE /\ result = Done("Ok", NoErr)
             /\ chunks = <<[type |-> "Unknown"]>>
             /\ remaining = AfterFirst(stream)

\* an ancillary unknown chunk with a two-byte body was skipped and the
\* parser stands at the IEND chunk behind it
C6_Witness ==
    /\ pc = "parsed"
    /\ UnknownFramed(stream)
    /\ stream[5] \in 97..122
    /\ BE32(stream, 1) = 2
    /\ chunks = <<[type |-> "Unknown"]>>
    /\ remaining = IendChunk

ValidBitDepthBytes == {1, 2, 4, 8, 16}

ValidColorTypeBytes == {0, 2, 3, 4, 6}

ValidInterlaceBytes == {0, 1}

ValidIhdrBody(b) ==
    /\ Len(b) = 13
    /\ b[9] \in ValidBitDepthBytes
    /\ b[10] \in ValidColorTypeBytes
    /\ b[11] = 0
    /\ b[12] = 0
    /\ b[13] \in ValidInterlaceBytes

InterlaceName(b) == IF b = 0 THEN "None" ELSE "Adam7"

IhdrFramed(s) == WellFramed(s) /\ SubSeq(s, 5, 8) = TagIHDR

\* C7: the header body parser accepts a body iff it is exactly 13 bytes with
\* a bit depth byte in {1,2,4,8,16}, a colour type byte in {0,2,3,4,6},
\* compression 0, filter method 0 and an interlace byte in {0,1}; it then
\* returns the big-endian width and height and the three enumerants; the
\* first invalid enumerant byte of a body is reported as InvalidBitDepth,
\* InvalidColorType or InvalidInterlace carrying that byte.
C7_IhdrBody ==
    (pc = "parsed" /\ IhdrFramed(stream)) =>
        \E b \in {FirstBody(stream)} :
            /\ (result.status = "Ok") <=> ValidIhdrBody(b)
            /\ ValidIhdrBody(b) =>
                  /\ Len(chunks) = 1
                  /\ chunks[1].type = "Ihdr"
                  /\ chunks[1].width = BE32(b, 1)
                  /\ chunks[1].height = BE32(b, 5)
                  /\ BitDepth_as_u8(chunks[1].bit_depth) = b[9]
                  /\ ColorType_as_u8(chunks[1].color_type) = b[10]
                  /\ chunks[1].interlace = InterlaceName(b[13])
                  /\ remaining = AfterFirst(stream)
            /\ (Len(b) >= 9 /\ b[9] \notin ValidBitDepthBytes) =>
                  result.err = Err("InvalidBitDepth", <<b[9]>>)
            /\ (Len(b) >= 10 /\ b[9] \in ValidBitDepthBytes
                    /\ b[10] \notin ValidColorTypeBytes) =>
                  result.err = Err("InvalidColorType", <<b[10]>>)
            /\ (Len(b) >= 13 /\ b[9] \in ValidBitDepthBytes
                    /\ b[10] \in ValidColorTypeBytes /\ b[11] = 0 /\ b[12] = 0
                    /\ b[13] \notin ValidInterlaceBytes) =>
                  result.err = Err("InvalidInterlace", <<b[13]>>)

\* a 293 x 165 header of 13 bytes whose only fault is its interlace byte 2
\* has been rejected with InvalidInterlace(2)
C7_Witness ==
    /\ pc = "parsed"
    /\ IhdrFramed(stream)
    /\ Len(FirstBody(stream)) = 13
    /\ BE32(FirstBody(stream), 1) = 293
    /\ FirstBody(stream)[9] = 16
    /\ FirstBody(stream)[10] = 6
    /\ result = Done("Error", Err("InvalidInterlace", <<2>>))

PlteFramed(s) == WellFramed(s) /\ SubSeq(s, 5, 8) = TagPLTE

\* C8: the chunk parser of render/chunks.rs accepts a PLTE chunk whose body length is a
\* multiple of 3 from 3 to 768 and returns a palette whose k-th entry is the
\* triple at body bytes 3k, 3k+1, 3k+2; a body whose length is not a
\* multiple of 3 or exceeds 768 is rejected with InvalidPaletteSize.
C8_PlteAccepted ==
    (pc = "parsed" /\ impl = "render" /\ PlteFramed(stream)) =>
        \E b \in {FirstBody(stream)} :
            /\ (Len(b) % 3 = 0 /\ Len(b) >= 3 /\ Len(b) <= 768) =>
                  /\ result = Done("Ok", NoErr)
                  /\ Len(chunks) = 1
                  /\ chunks[1].type = "Plte"
                  /\ Colors_len(chunks[1].colors) = Len(b) \div 3
                  /\ \A k \in 0..((Len(b) \div 3) - 1) :
                        Colors_get(chunks[1].colors, k)
                            = from_rgb8(b[3 * k + 1], b[3 * k + 2], b[3 * k + 3])
                  /\ remaining = AfterFirst(stream)
            /\ (Len(b) % 3 # 0 \/ Len(b) > 768) =>
                  result = Done("Failure", Err("InvalidPaletteSize", <<Len(b)>>))

FoldTag(t) == [i \in 1..4 |-> IF t[i] \in 97..122 THEN t[i] - 32 ELSE t[i]]

ExpectedType(t) ==
    CASE FoldTag(t) = TagIHDR -> "Ihdr"
      [] FoldTag(t) = TagPLTE -> "Plte"
      [] FoldTag(t) = TagIDAT -> "Idat"
      [] FoldTag(t) = TagIEND -> "Iend"
      [] OTHER -> "Unknown"

\* C10: over a concatenation of well-formed chunks (a valid IHDR,
\* optionally a PLTE of valid length, IDAT and ancillary chunks) that ends
\* with an empty IEND, the iterated chunk parser of render/chunks.rs yields one chunk per record
\* in file order, the last of them Iend, finishes without error and leaves
\* no input.
C10_IterateWellFormed ==
    (pc = "finished" /\ impl = "render" /\ stream \in WellFormedInputs) =>
        /\ result = Done("Ok", NoErr)
        /\ remaining = <<>>
        /\ Len(chunks) = Len(FrameTags(stream))
        /\ \A i \in 1..Len(chunks) : chunks[i].type = ExpectedType(FrameTags(stream)[i])
        /\ chunks # <<>> /\ chunks[Len(chunks)].type = "Iend"

\* ------------------------------------------------------------------------
\* Properties of the pixel decode
\* ------------------------------------------------------------------------
\* the renderer holds a whole reconstructed 8-bit Palette scanline with a
\* sample that is no index of the palette set
PaletteSampleOutOfRange ==
    /\ renderer # NoRenderer
    /\ renderer.color_type = "Palette"
    /\ renderer.bits_per_pixel = 8
    /\ renderer.palette # NoPalette
    /\ Len(renderer.next_scanline) = renderer.scanline_len
    /\ \E i \in 2..Len(renderer.next_scanline) :
         renderer.next_scanline[i] >= Colors_len(renderer.palette[1])

\* C9: a Palette sample greater than or equal to the number of palette
\* entries makes the decode return an error value; it does not panic.
C9_PaletteIndexIsError ==
    PaletteSampleOutOfRange => result.status = "Err"

\* ------------------------------------------------------------------------
\* Properties of the scanline filter
\* ------------------------------------------------------------------------
\* C3: for every filter type, bytes per pixel, raw scanline and scanline
\* above (none for row 0), the forward PNG filter followed by the decoder's
\* filter() gives the raw scanline back, with no arithmetic overflow fault.
C3_FilterRoundTrip ==
    pc = "defiltered" => (result.status = "Ok" /\ remaining = stream)

\* ------------------------------------------------------------------------
\* Properties of the chunk loop
\* ------------------------------------------------------------------------

\* C11: IEND is terminal: a decode ends in success only when the IEND
\* chunk is followed by zero bytes, any byte after IEND makes it fail.
C11_IendIsTerminal ==
    (pc = "done" /\ result.status = "Ok") => remaining = <<>>

\* input is whole chunk records from its first byte to its last
RECURSIVE FramedWhole(_)
FramedWhole(input) ==
    \/ input = <<>>
    \/ /\ WellFramed(input)
       /\ FramedWhole(AfterFirst(input))

\* after a first IHDR record, the stream holds IDAT and ancillary records only
NoIendInput(s) ==
    /\ HasSignature(s)
    /\ FramedWhole(Drop(s, 8))
    /\ FrameTags(Drop(s, 8)) # <<>>
    /\ FrameTags(Drop(s, 8))[1] = TagIHDR
    /\ \A i \in 2..Len(FrameTags(Drop(s, 8))) : FrameTags(Drop(s, 8))[i] \in {TagIDAT, TagText}

\* the decode ended with an error or a panic that Renderer::write or the
\* decompressor raised
DataFailed ==
    \/ result.status = "Panic"
    \/ result.status = "Err" /\ result.err.kind \in {"InvalidFilterType", "IoError", "Unknown", ""}

\* C12: a stream of whole well-formed chunks that ends without an IEND
\* chunk fails with MissingCritical("IEND"), whatever was drawn from its
\* IDAT chunks; it never succeeds.
C12_MissingIend ==
    (pc = "done" /\ renderer # NoRenderer /\ NoIendInput(stream) /\ ~DataFailed) =>
        result = Done("Err", Err("MissingCritical", <<"IEND">>))

\* C13: once the decode has its error nothing further happens: no chunk is
\* interpreted, no byte is fed to the decompressor, no buffer reaches
\* Renderer::write and no pixel is drawn.
C13_NothingAfterError ==
    [][result.status = "Err" =>
          (chunks' = chunks /\ fed' = fed /\ writes' = writes /\ drawn' = drawn)]_vars

\* C14: when a chunk after the header fails to parse with input left, the
\* decode returns the chunk parser's own error.
C14_ChunkErrorReturned ==
    [][(pc = "loop" /\ remaining # <<>> /\ ~chunk(remaining).ok) =>
          result' = Done("Err", chunk(remaining).err)]_vars

\* the bytes Renderer::write was given, in order
Written == Concat(writes)

\* the first scanline record is complete and its filter byte is not 0..4
BadFirstFilter ==
    /\ renderer # NoRenderer
    /\ Len(Written) >= renderer.scanline_len
    /\ Written[1] \notin 0..4

\* C15: a completed scanline record whose first byte is not 0..4 makes the
\* decode fail with InvalidFilterType carrying that byte, and the scanline
\* is not drawn.
C15_InvalidFilterType ==
    (pc = "done" /\ BadFirstFilter) =>
        /\ result = Done("Err", Err("InvalidFilterType", <<Written[1]>>))
        /\ drawn = <<>>

\* the bodies of the records of input that dispatch as IDAT, in order, up to
\* the first IEND record or the end of the whole records
RECURSIVE IdatBodies(_)
IdatBodies(input) ==
    IF ~WellFramed(input) THEN <<>>
    ELSE IF FoldTag(SubSeq(input, 5, 8)) = TagIEND THEN <<>>
    ELSE IF FoldTag(SubSeq(input, 5, 8)) = TagIDAT
         THEN FirstBody(input) \o IdatBodies(AfterFirst(input))
         ELSE IdatBodies(AfterFirst(input))

IsPrefix(a, b) == Len(a) <= Len(b) /\ Take(b, Len(a)) = a

\* the bytes behind the signature that the decode has gone through
Consumed == Take(Drop(stream, 8), Len(stream) - 8 - Len(remaining))

\* C16: the bytes fed to the decompressor are the bodies of the IDAT chunks
\* behind the header, concatenated in file order: of all chunks gone through
\* while the loop runs, of all up to IEND when the decode succeeds, and a
\* prefix of that in every state; no other chunk's bytes are fed.
C16_FedIsIdatBodies ==
    /\ pc \in {"header", "ihdr"} => fed = <<>>
    /\ pc \in {"loop", "drop", "done"} => IsPrefix(fed, IdatBodies(Consumed))
    /\ pc = "loop" => fed = IdatBodies(Consumed)
    /\ result.status = "Ok" =>
          /\ fed = IdatBodies(Consumed)
          /\ fed = IdatBodies(Drop(stream, 8))

\* a decode succeeded on two IDAT chunks of different bodies with an
\* ancillary chunk between them
C16_Witness ==
    /\ pc = "done"
    /\ result.status = "Ok"
    /\ Len(chunks) >= 4
    /\ chunks[2].type = "Idat"
    /\ chunks[3].type = "Unknown"
    /\ chunks[4].type = "Idat"
    /\ fed = <<120, 1, 218>>

\* the record at the start of s with its four checksum bytes set to zero
ZeroCrc(s) ==
    [i \in 1..Len(s) |-> IF i \in (9 + BE32(s, 1))..(12 + BE32(s, 1)) THEN 0 ELSE s[i]]

\* what ChunkParse leaves as the outcome of chunk(input)
Outcome(c) ==
    IF c.ok
    THEN [status |-> "Ok", err |-> NoErr, out |-> <<c.out>>, rest |-> c.rest]
    ELSE [status |-> c.sev, err |-> c.err, out |-> <<>>, rest |-> <<>>]

TagLetters(s) == Len(s) >= 8 /\ \A i \in 5..8 : IsLetter(s[i])

\* C18: a chunk that parses leaves the input 4 + 4 + length + 4 bytes
\* further, length being the big-endian number in its first four bytes; the
\* outcome of a whole record is the same with any checksum bytes; an input
\* with fewer than length + 4 bytes behind the type, or with a type byte that
\* is not an ASCII letter, fails.
C18_ChunkFraming ==
    pc = "parsed" =>
      /\ result.status = "Ok" =>
            /\ WellFramed(stream)
            /\ TagLetters(stream)
            /\ remaining = Drop(stream, 4 + 4 + BE32(stream, 1) + 4)
      /\ (WellFramed(stream) /\ TagLetters(stream)) =>
            /\ Outcome(chunk_of(impl, stream)) = Outcome(chunk_of(impl, ZeroCrc(stream)))
            /\ result = Done(Outcome(chunk_of(impl, ZeroCrc(stream))).status,
                             Outcome(chunk_of(impl, ZeroCrc(stream))).err)
            /\ chunks = Outcome(chunk_of(impl, ZeroCrc(stream))).out
      /\ (Len(stream) >= 8 /\ Len(stream) - 8 < BE32(stream, 1) + 4) => result.status # "Ok"
      /\ (Len(stream) >= 8 /\ ~TagLetters(stream)) => result.status # "Ok"

\* a chunk with a body and a checksum that is not zero has been parsed, with
\* input left behind it
C18_Witness ==
    /\ pc = "parsed"
    /\ result.status = "Ok"
    /\ BE32(stream, 1) = 1
    /\ SubSeq(stream, 10, 13) = <<222, 173, 190, 239>>
    /\ remaining = IendChunk

\* ------------------------------------------------------------------------
\* Properties of Renderer::write
\* ------------------------------------------------------------------------

\* how many of the first n draw calls are for row y
DrawsOfRow(y, n) == Cardinality({j \in 1..n : drawn[j].y = y})

\* a Palette image that got no palette draws nothing
DrawsNothing == renderer.color_type = "Palette" /\ renderer.palette = NoPalette

\* C17: the draw calls come row by row; within the row of scanline r they
\* are at y = r and x = 0, 1, 2, ... in this order, one per pixel: every
\* draw call's row is a scanline that was completed, and a completed
\* scanline of a format with whole-byte pixels has width draw calls.
C17_DrawCoordinates ==
    (pc \in {"idle", "dump"} /\ result.status = "Running") =>
      /\ \A i \in 1..Len(drawn) :
            /\ drawn[i].y \in 0..(renderer.scanline - 1)
            /\ drawn[i].x = DrawsOfRow(drawn[i].y, i - 1)
            /\ i > 1 => drawn[i - 1].y <= drawn[i].y
      /\ (renderer.bits_per_pixel >= 8 /\ ~DrawsNothing) =>
            \A r \in 0..(renderer.scanline - 1) : DrawsOfRow(r, Len(drawn)) = renderer.width

\* the stride of the claim
Stride == (renderer.width * renderer.bits_per_pixel + 7) \div 8 + 1

\* the bytes of the stream that were given to write so far
Given == Take(stream, Len(stream) - Len(remaining) - Len(pending))

\* the renderer as it was before the first write
Fresh ==
    [renderer EXCEPT !.scanline = 0, !.next_scanline = <<>>, !.prev_scanline = <<>>,
                     !.frame = TRUE]

\* the outcome of giving s to the fresh renderer in one write call
OneWrite(s) == write(impl, build, Fresh, s)

\* C20: however the stream is split into writes, the renderer and the draw
\* calls are those of one write of all the bytes given so far; the records
\* are the successive stride-long pieces of the stream, stride =
\* ceil(width * bits_per_pixel / 8) + 1: between writes the scanline index is
\* the number of whole pieces given, the current buffer is the raw bytes
\* behind the last whole piece, fewer than stride; a successful write
\* reports its whole input as consumed; a failing write fails as one write of
\* the same bytes does.
C20_WriteSplitting ==
    /\ (pc = "idle" /\ renderer # NoRenderer) =>
          /\ pending = <<>>
          /\ renderer.scanline_len = Stride
          /\ renderer.scanline = Len(Given) \div Stride
          /\ renderer.next_scanline = Drop(Given, renderer.scanline * Stride)
          /\ Len(renderer.next_scanline) < Stride
          /\ \E w \in {OneWrite(Given)} :
                /\ w.res = "Ok"
                /\ w.r = renderer
                /\ w.draws = drawn
    /\ (pc = "done" /\ writes # <<>> /\ stream = Concat(writes) \o remaining) =>
          \E w \in {OneWrite(Concat(writes))} :
                /\ w.res = result.status
                /\ w.err = result.err
                /\ w.draws = drawn

\* a stream of two whole records and more was given in three writes, the
\* second of them empty and the third holding the end of the first record
\* and all of the second
C20_Witness ==
    /\ pc = "idle"
    /\ Len(writes) = 3
    /\ writes[1] # <<>>
    /\ writes[2] = <<>>
    /\ Len(writes[1]) < Stride
    /\ Len(writes[3]) > Stride
    /\ renderer.scanline = 2
    /\ Len(drawn) >= 2

\* ------------------------------------------------------------------------
\* Properties of the host application
\* ------------------------------------------------------------------------

\* C19: when the Loaded message of a failed load has been handled, the
\* viewer draws what it drew when the load was requested, the placeholder
\* or the image loaded before; a Loaded viewer holds the cache of a load
\* that succeeded.
C19_FailedLoadKeepsDisplay ==
    /\ (task.state = "none" /\ task.result = "Err") => Viewer_draw(viewer) = before
    /\ viewer.state = "Loaded" => viewer.cache.id \in 1..task.loads

\* record k of the bytes given to write
Record(k) == SubSeq(Given, k * Stride + 1, (k + 1) * Stride)

\* what filter makes of record k, with what it made of record k - 1 as the
\* previous scanline, and the empty buffer before record 0
RECURSIVE Reconstructed(_)
Reconstructed(k) ==
    filter(impl, build,
           [Fresh EXCEPT !.next_scanline = Record(k),
                         !.prev_scanline = IF k = 0 THEN <<>> ELSE Reconstructed(k - 1)]).line

\* what filter makes of record 0 over a previous scanline of zeros
ReconstructedOverZeros ==
    filter(impl, build,
           [Fresh EXCEPT !.next_scanline = Record(0), !.prev_scanline = Zeros(Stride)]).line

\* C21: between writes, after n scanlines completed, the scanline index is
\* n, the current buffer holds only the bytes behind record n - 1 (none when
\* the stream ends with it), and the previous buffer is the reconstructed
\* record n - 1: stride bytes, the first of them 0, made by filter over the
\* reconstructed record n - 2; before scanline 0 the previous buffer is
\* empty, which filter takes as a scanline of zeros.
C21_PreviousScanline ==
    (pc = "idle" /\ renderer # NoRenderer) =>
      /\ renderer.scanline * Stride + Len(renderer.next_scanline) = Len(Given)
      /\ Len(Given) % Stride = 0 => renderer.next_scanline = <<>>
      /\ renderer.scanline = 0 => renderer.prev_scanline = <<>>
      /\ renderer.scanline >= 1 =>
            /\ renderer.prev_scanline = Reconstructed(renderer.scanline - 1)
            /\ Len(renderer.prev_scanline) = Stride
            /\ renderer.prev_scanline[1] = 0
            /\ Reconstructed(0) = ReconstructedOverZeros

\* two Paeth scanlines 04 04 completed: the second was reconstructed over
\* the reconstructed first (00 04), which gives 00 08, not over the raw one
C21_Witness ==
    /\ pc = "idle"
    /\ Given = <<4, 4, 4, 4>>
    /\ renderer.scanline = 2
    /\ renderer.next_scanline = <<>>
    /\ renderer.prev_scanline = <<0, 8>>

\* ------------------------------------------------------------------------
\* Properties of Renderer::filter
\* ------------------------------------------------------------------------

\* the claim's Paeth choice for left a, up b, up-left c, in the integers
PaethChoice(a, b, c) ==
    IF Abs((a + b - c) - a) <= Abs((a + b - c) - b) /\ Abs((a + b - c) - a) <= Abs((a + b - c) - c)
    THEN a
    ELSE IF Abs((a + b - c) - b) <= Abs((a + b - c) - c) THEN b ELSE c

\* the claim's reconstruction of the Paeth-filtered bytes filt (without the
\* filter byte) over the scanline above (up, empty for row 0), from byte x
\* on; acc holds the bytes reconstructed so far
RECURSIVE PaethReconstruct(_, _, _, _, _)
PaethReconstruct(filt, up, bpp, x, acc) ==
    IF x > Len(filt) THEN acc
    ELSE PaethReconstruct(filt, up, bpp, x + 1,
             Append(acc, (filt[x] + PaethChoice(IF x > bpp THEN acc[x - bpp] ELSE 0,
                                                IF up # <<>> THEN up[x] ELSE 0,
                                                IF up # <<>> /\ x > bpp THEN up[x - bpp] ELSE 0))
                         % 256))

\* the Paeth-filtered scanline that filter was given, without its filter byte
FilteredLine == Drop(Forward(fed[1], stream, pending, div_ceil(renderer.bits_per_pixel, 8)), 1)

\* C22: filter reconstructs a Paeth scanline without an arithmetic fault,
\* each byte being the raw byte plus, modulo 256, the choice among left, up
\* and up-left made on p = left + up - up_left in the integers, absent
\* operands counting as 0; the first byte of a first row is left as it is.
C22_PaethReconstruction ==
    (pc = "defiltered" /\ fed[1] = 4) =>
      /\ result.status = "Ok"
      /\ remaining = PaethReconstruct(FilteredLine, pending,
                                      div_ceil(renderer.bits_per_pixel, 8), 1, <<>>)
      /\ pending = <<>> => remaining[1] = FilteredLine[1]

\* ------------------------------------------------------------------------
\* Properties of Renderer::render
\* ------------------------------------------------------------------------

\* sample x of a reconstructed scanline (line, with its leading byte) of
\* samples of the given number of bits, most significant bits first
SampleAt(line, bits, x) ==
    (line[2 + (x * bits) \div 8] \div Pow2(8 - bits - ((x * bits) % 8))) % Pow2(bits)

\* draw call d is for a sample of a completed scanline
OnScanline(d) ==
    /\ d.y \in 0..(renderer.scanline - 1)
    /\ d.x \in 0..(((Stride - 1) * 8) \div renderer.bits_per_pixel - 1)

\* the fraction f (numerator, denominator) has the value n / m
IsFraction(f, n, m) == f[1] * m = n * f[2]

\* C23: a GrayScale image of bit depth 1, 2 or 4 draws the sample of value
\* v with red = green = blue = v / (2^bits_per_pixel - 1) and full alpha:
\* the sample of all ones at intensity 1, the sample 0 at intensity 0.
C23_LowDepthGray ==
    (pc = "idle" /\ renderer # NoRenderer /\ renderer.color_type = "GrayScale"
        /\ renderer.bits_per_pixel < 8) =>
      \A i \in 1..Len(drawn) :
         /\ OnScanline(drawn[i])
         /\ \A c \in 1..3 :
               IsFraction(drawn[i].color[c],
                          SampleAt(Reconstructed(drawn[i].y), renderer.bits_per_pixel, drawn[i].x),
                          Pow2(renderer.bits_per_pixel) - 1)
         /\ IsFraction(drawn[i].color[4], 1, 1)

\* the bytes of pixel k (from 0) of the scanline in stream, which has its
\* filter byte in front
Unit(k, bytes_per_pixel) ==
    SubSeq(stream, 2 + k * bytes_per_pixel, 1 + (k + 1) * bytes_per_pixel)

\* an 8-bit channel in byte j of unit u, a 16-bit channel in its bytes j, j + 1
Channel8(u, j) == <<u[j + 1], 255>>

Channel16(u, j) == <<u[j + 1] * 256 + u[j + 2], 65535>>

\* the claim's red, green, blue, alpha of the pixel with unit u
ClaimedColor(color_type, bit_depth, u) ==
    CASE color_type = "GrayScale" /\ bit_depth = 8 ->
           <<Channel8(u, 0), Channel8(u, 0), Channel8(u, 0), One>>
      [] color_type = "GrayScale" /\ bit_depth = 16 ->
           <<Channel16(u, 0), Channel16(u, 0), Channel16(u, 0), One>>
      [] color_type = "GrayScaleAlpha" /\ bit_depth = 8 ->
           <<Channel8(u, 0), Channel8(u, 0), Channel8(u, 0), Channel8(u, 1)>>
      [] color_type = "GrayScaleAlpha" /\ bit_depth = 16 ->
           <<Channel16(u, 0), Channel16(u, 0), Channel16(u, 0), Channel16(u, 2)>>
      [] color_type = "Rgb" /\ bit_depth = 8 ->
           <<Channel8(u, 0), Channel8(u, 1), Channel8(u, 2), One>>
      [] color_type = "Rgb" /\ bit_depth = 16 ->
           <<Channel16(u, 0), Channel16(u, 2), Channel16(u, 4), One>>
      [] color_type = "RgbAlpha" /\ bit_depth = 8 ->
           <<Channel8(u, 0), Channel8(u, 1), Channel8(u, 2), Channel8(u, 3)>>
      [] color_type = "RgbAlpha" /\ bit_depth = 16 ->
           <<Channel16(u, 0), Channel16(u, 2), Channel16(u, 4), Channel16(u, 6)>>

\* the bits of one channel of the renderer's format
ChannelDepth ==
    IF renderer.bits_per_pixel \in {8, 24} THEN 8
    ELSE IF renderer.bits_per_pixel \in {48, 64} THEN 16
    ELSE IF renderer.color_type = "GrayScale" THEN 16
    ELSE IF renderer.color_type = "GrayScaleAlpha" THEN renderer.bits_per_pixel \div 2
    ELSE 8

\* C24: a scanline of a format with whole-byte pixels is drawn pixel by
\* pixel, the k-th draw call taking its channels from the k-th unit of
\* bytes_per_pixel bytes behind the filter byte: 8-bit channels are byte j
\* over 255, 16-bit channels the big-endian bytes 2j, 2j + 1 over 65535, in
\* the order gray, alpha or red, green, blue, alpha.  Channels are compared
\* as the pairs (numerator, denominator) the code divides.
C24_ChannelBytes ==
    pc = "rendered" =>
      /\ result.status = "Ok"
      /\ Len(drawn) = renderer.width
      /\ \A i \in 1..Len(drawn) :
            drawn[i].color = ClaimedColor(renderer.color_type, ChannelDepth,
                                          Unit(i - 1, renderer.bits_per_pixel \div 8))

\* ------------------------------------------------------------------------
\* More properties of the decode state machine
\* ------------------------------------------------------------------------

\* C25: a decode ends with DuplicateIhdr only on a stream that holds two
\* IHDR chunks or more; the header chunk is not gone through twice.
C25_DuplicateIhdrIsReal ==
    (result.status = "Err" /\ result.err.kind = "DuplicateIhdr") =>
        IhdrCount(Drop(stream, 8)) >= 2

\* C26: every draw call's column is below the width and a completed
\* scanline has exactly width draw calls: the padding bits that fill the
\* last byte of a scanline of depth 1, 2 or 4 are not drawn.
C26_NoPaddingPixels ==
    (pc \in {"idle", "dump"} /\ result.status = "Running" /\ ~DrawsNothing) =>
      /\ \A i \in 1..Len(drawn) : drawn[i].x < renderer.width
      /\ \A r \in 0..(renderer.scanline - 1) : DrawsOfRow(r, Len(drawn)) = renderer.width

\* C27: every draw call's row is below the height of the image, whatever
\* amount of data the compressed stream inflates to.
C27_RowBelowHeight ==
    renderer # NoRenderer =>
        \A i \in 1..Len(drawn) : drawn[i].y < renderer.height

\* C28: a Palette image is never decoded successfully without a palette:
\* when a scanline was completed and no PLTE chunk had set the palette, the
\* decode ends with an error.
C28_PaletteRequired ==
    (pc = "done" /\ renderer # NoRenderer /\ renderer.color_type = "Palette"
       /\ renderer.palette = NoPalette /\ renderer.scanline >= 1) =>
        result.status = "Err"

\* ------------------------------------------------------------------------
\* Progress of the viewer
\* ------------------------------------------------------------------------

\* C29: once the background task of a load has ended, with success or with
\* an error, its Loaded message is handled and the viewer leaves Loading;
\* it is never left in Loading for good.
C29_LeavesLoading == (task.state = "finished") ~> ~is_loading(viewer)

\* ------------------------------------------------------------------------
\* Properties of the zoom level
\* ------------------------------------------------------------------------

\* the calls of the script made so far
CallsMade == Take(stream, Len(stream) - Len(remaining))

\* C30: whatever calls are made, the level is one of the seven levels;
\* zoom_in moves it one step up and zoom_out one step down and they return
\* true, except zoom_in at X4 and zoom_out at X1, which leave the level as
\* it is and return false: the value returned tells whether the level
\* changed.
C30_ZoomSteps ==
    /\ [](LevelIndex(state.zoom) \in 1..7)
    /\ [][/\ ZoomIn =>
               IF state.zoom = "X4"
               THEN state'.zoom = "X4" /\ result'.zoomed = FALSE
               ELSE /\ LevelIndex(state'.zoom) = LevelIndex(state.zoom) + 1
                    /\ result'.zoomed = TRUE
          /\ ZoomOut =>
               IF state.zoom = "X1"
               THEN state'.zoom = "X1" /\ result'.zoomed = FALSE
               ELSE /\ LevelIndex(state'.zoom) = LevelIndex(state.zoom) - 1
                    /\ result'.zoomed = TRUE
          /\ (ZoomIn \/ ZoomOut) => (result'.zoomed <=> state'.zoom # state.zoom)]_vars

\* zoom_in was called at X4, after a toggle, and returned false
C30_Witness ==
    /\ pc = "zoom"
    /\ CallsMade = <<"zoom_toggle", "zoom_in">>
    /\ state.zoom = "X4"
    /\ result = Returned(FALSE)

====
